---- MODULE Spec2Model ----
(***************************************************************************)
(* Model of the sanskrit-search library: PratikaIdentifier (pratika.js),   *)
(* SanskritSandhiRules (sandhi-rules.js) and SanskritSearch                *)
(* (sanskrit-search.js).                                                   *)
(*                                                                         *)
(* A JavaScript string is a sequence of UTF-16 code units.  Every          *)
(* character the library names lies in the Basic Multilingual Plane, so a  *)
(* string is modelled as a sequence of characters, each character being a  *)
(* TLA+ string that names one code unit (the table below).  JavaScript     *)
(* positions are 0-based; position p of a string s is s[p + 1] here.       *)
(***************************************************************************)
EXTENDS Integers, Sequences, FiniteSets, TLC

(***************************************************************************)
(* Characters: each is written as the string that names it.               *)
(*   independent vowels:                                                   *)
(*     "A" U+0905 a; "AA" U+0906 aa; "I" U+0907 i; "II" U+0908 ii;         *)
(*     "U" U+0909 u; "UU" U+090A uu; "R" U+090B vocalic r;                 *)
(*     "RR" U+0960 vocalic rr; "L" U+090C vocalic l;                       *)
(*     "LL" U+0961 vocalic ll; "E" U+090F e; "AI" U+0910 ai; "O" U+0913 o; *)
(*     "AU" U+0914 au;                                                     *)
(*   dependent vowel signs:                                                *)
(*     "-aa" U+093E sign aa; "-i" U+093F sign i; "-ii" U+0940 sign ii;     *)
(*     "-u" U+0941 sign u; "-uu" U+0942 sign uu;                           *)
(*     "-r" U+0943 sign vocalic r; "-rr" U+0944 sign vocalic rr;           *)
(*     "-l" U+0962 sign vocalic l; "-ll" U+0963 sign vocalic ll;           *)
(*     "-e" U+0947 sign e; "-ai" U+0948 sign ai; "-o" U+094B sign o;       *)
(*     "-au" U+094C sign au;                                               *)
(*   marks:                                                                *)
(*     "~" U+0901 candrabindu; "M" U+0902 anusvara; "H" U+0903 visarga;    *)
(*     "+" U+094D virama; "." U+093C nukta; "'" U+093D avagraha;           *)
(*     "Hk" U+1CF5 jihvamuliya; "Hp" U+1CF6 upadhmaniya;                   *)
(*   consonants:                                                           *)
(*     "k" U+0915; "kh" U+0916; "g" U+0917; "gh" U+0918; "ng" U+0919;      *)
(*     "c" U+091A; "ch" U+091B; "j" U+091C; "jh" U+091D; "ny" U+091E;      *)
(*     "tt" U+091F; "tth" U+0920; "dd" U+0921; "ddh" U+0922; "nn" U+0923;  *)
(*     "t" U+0924; "th" U+0925; "d" U+0926; "dh" U+0927; "n" U+0928;       *)
(*     "n." U+0929 (composite of U+0928 U+093C); "p" U+092A; "ph" U+092B;  *)
(*     "b" U+092C; "bh" U+092D; "m" U+092E; "y" U+092F; "r" U+0930;        *)
(*     "l" U+0932; "v" U+0935; "sh" U+0936; "ss" U+0937; "s" U+0938;       *)
(*     "h" U+0939; "q" U+0958 (NFC: U+0915 U+093C);                        *)
(*   others:                                                               *)
(*     " " U+0020 space; "\\n" U+000A line feed; "danda" U+0964 danda;     *)
(*     "ddanda" U+0965 double danda; "," U+002C; "[" U+005B; "]" U+005D;   *)
(*     "LA" U+0041; "la" U+0061;                                           *)
(***************************************************************************)
\* the word iti: U+0907 U+0924 U+093F
Iti == <<"I", "t", "-i">>

(***************************************************************************)
(* JavaScript string primitives.                                           *)
(***************************************************************************)
Min(a, b) == IF a < b THEN a ELSE b
Max(a, b) == IF a > b THEN a ELSE b

\* String.prototype.slice(start, end), negative indices counted from the end
SliceJS(s, start, end) ==
    LET n  == Len(s)
        st == IF start < 0 THEN Max(n + start, 0) ELSE Min(start, n)
        en == IF end < 0 THEN Max(n + end, 0) ELSE Min(end, n)
    IN  IF st >= en THEN <<>> ELSE SubSeq(s, st + 1, en)

\* s.slice(0, -k)
DropLast(s, k) == SliceJS(s, 0, 0 - k)

\* s.slice(k)
SliceFrom(s, k) == SliceJS(s, k, Len(s))

\* String.prototype.substr(start, length), start >= 0
Substr(s, start, len) == SliceJS(s, start, Min(start + len, Len(s)))

\* String.prototype.endsWith
EndsWith(s, suf) ==
    /\ Len(suf) <= Len(s)
    /\ SubSeq(s, Len(s) - Len(suf) + 1, Len(s)) = suf

\* sub occurs in s at 0-based position p
OccursAt(s, sub, p) ==
    /\ p >= 0
    /\ p + Len(sub) <= Len(s)
    /\ SubSeq(s, p + 1, p + Len(sub)) = sub

\* the first of the positions found, -1 when there is none
Least(hits) ==
    IF hits = {} THEN 0 - 1 ELSE CHOOSE p \in hits : \A q \in hits : p <= q

\* String.prototype.indexOf(sub, from): -1 when there is no occurrence
IndexOf(s, sub, from) ==
    Least({p \in Min(Max(from, 0), Len(s))..Len(s) : OccursAt(s, sub, p)})

Includes(s, sub) == IndexOf(s, sub, 0) # 0 - 1

\* WhiteSpace and LineTerminator code units, as \s and trim() see them
WhiteSpace == {" ", "\\n"}

RECURSIVE TrimStart(_)
TrimStart(s) ==
    IF s # <<>> /\ Head(s) \in WhiteSpace THEN TrimStart(Tail(s)) ELSE s

RECURSIVE TrimEnd(_)
TrimEnd(s) ==
    IF s # <<>> /\ s[Len(s)] \in WhiteSpace
    THEN TrimEnd(SubSeq(s, 1, Len(s) - 1)) ELSE s

\* String.prototype.trim
Trim(s) == TrimEnd(TrimStart(s))

\* String.prototype.normalize('NFC') on the characters above: U+0958 is a
\* composition exclusion and decomposes, U+0928 U+093C composes to U+0929;
\* every other character of the table is its own normal form.
RECURSIVE Decompose(_)
Decompose(s) ==
    IF s = <<>> THEN <<>>
    ELSE IF Head(s) = "q" THEN <<"k", ".">> \o Decompose(Tail(s))
    ELSE IF Head(s) = "n." THEN <<"n", ".">> \o Decompose(Tail(s))
    ELSE <<Head(s)>> \o Decompose(Tail(s))

RECURSIVE Compose(_)
Compose(s) ==
    IF Len(s) < 2 THEN s
    ELSE IF s[1] = "n" /\ s[2] = "." THEN <<"n.">> \o Compose(SliceFrom(s, 2))
    ELSE <<Head(s)>> \o Compose(Tail(s))

NFC(s) == Compose(Decompose(s))

\* String.prototype.toLowerCase: only the Latin letter has a lower case
ToLowerCase(s) ==
    [i \in 1..Len(s) |-> IF s[i] = "LA" THEN "la" ELSE s[i]]

(***************************************************************************)
(* PratikaIdentifier.identifyPratika (pratika.js).                         *)
(***************************************************************************)
\* JavaScript null
Null == <<"null">>

\* the argument of a call: null, undefined, a number or a string
JsNull      == [t |-> "null"]
JsUndefined == [t |-> "undefined"]
JsNumber(n) == [t |-> "number", n |-> n]
JsString(s) == [t |-> "string", s |-> s]

\* !v
Falsy(v) ==
    \/ v.t \in {"null", "undefined"}
    \/ v.t = "number" /\ v.n = 0
    \/ v.t = "string" /\ v.s = <<>>

\* /[िीे]ति$/
EndsWithITi(s) ==
    /\ Len(s) >= 3
    /\ s[Len(s) - 2] \in {"-i", "-ii", "-e"}
    /\ s[Len(s) - 1] = "t"
    /\ s[Len(s)] = "-i"

\* /\s+इति$/
EndsWithSpaceIti(s) ==
    /\ Len(s) >= 4
    /\ EndsWith(s, Iti)
    /\ s[Len(s) - 3] \in WhiteSpace

\* /^[^िीे]+इति$/
PlainStemIti(s) ==
    /\ Len(s) >= 4
    /\ EndsWith(s, Iti)
    /\ \A i \in 1..(Len(s) - 3) : s[i] \notin {"-i", "-ii", "-e"}

\* the shape gate of identifyPratika
ShapeGate(s) == EndsWithITi(s) \/ EndsWithSpaceIti(s) \/ PlainStemIti(s)

\* trimmedText.replace(/\s+इति$/, '').trim()
WordBeforeIti(s) == Trim(TrimEnd(DropLast(s, 3)))

\* /[ािीुूृॄॢॣेैोौ]$/
VowelMarks == {"-aa", "-i", "-ii", "-u", "-uu", "-r", "-rr", "-l", "-ll", "-e", "-ai", "-o", "-au"}
endsWithVowelMark(w) == w # <<>> /\ w[Len(w)] \in VowelMarks

\* /[ःंँ]$/
endsWithVisargaOrAnusvara(w) ==
    w # <<>> /\ w[Len(w)] \in {"H", "M", "~"}

\* the consonant class tested before U+094B U+0924 U+093F
OtiConsonants ==
    {"k", "kh", "g", "gh", "ng", "c", "ch", "j", "jh", "ny", "tt", "tth", "dd", "ddh", "nn",
     "t", "th", "d", "dh", "n", "p", "ph", "b", "bh", "m", "y", "r", "l", "v", "sh", "ss", "s", "h"}

NotPratika(t) ==
    [kind |-> "value", isPratika |-> FALSE, originalText |-> t, stem |-> Null,
     pattern |-> "null", itiEnding |-> Null, confidence |-> 0]

\* a branch that rates its finding ten points lower
RuleLessConfident(working, pattern, confidence) ==
    [working |-> working, pattern |-> pattern, confidence |-> confidence - 10]

\* a branch that does not restore the visarga
RuleWithoutVisarga(working, pattern, confidence) ==
    [working |-> IF EndsWith(working, <<"H">>) THEN DropLast(working, 1) ELSE working,
     pattern |-> pattern, confidence |-> confidence]

\* what a branch of the cascade assigns
Rule(working, pattern, confidence) ==
    [working |-> working, pattern |-> pattern, confidence |-> confidence]

\* the if / else-if cascade over the ORIGINAL trimmed text: the first branch
\* whose suffix the text ends with decides working, pattern and confidence
RuleCascade(t) ==
    IF EndsWith(t, <<"y", "+", "v", "-i", "t", "-i">>)
    THEN Rule(DropLast(t, 6) \o <<"y", "-u">>, "yaviti", 85)
    ELSE IF EndsWith(t, <<"-aa", "v", "-i", "t", "-i">>)
    THEN Rule(DropLast(t, 5) \o <<"-au">>, "aaviti", 85)
    ELSE IF EndsWith(t, <<"s", "+", "y", "-e", "t", "-i">>)
    THEN Rule(DropLast(t, 4) \o <<"y">>, "syeti", 90)
    ELSE IF EndsWith(t, <<"-aa", "y", "-e", "t", "-i">>)
    THEN Rule(DropLast(t, 5), "aayeti", 80)
    ELSE IF EndsWith(t, <<"bh", "-i", "r", "-i", "t", "-i">>)
    THEN LET beforePattern == DropLast(t, 6)
         IN  IF /\ beforePattern # <<>>
                /\ ~EndsWith(beforePattern, <<"-r">>)
                /\ ~EndsWith(beforePattern, <<"-rr">>)
             THEN Rule(beforePattern \o <<"bh", "-i", "H">>, "bhiriti-visarga", 90)
             ELSE Rule(DropLast(t, 6) \o <<"bh", "-i", "r">>, "bhiriti", 90)
    ELSE IF EndsWith(t, <<"m", "-i", "t", "-i">>)
    THEN Rule(DropLast(t, 4) \o <<"m", "+">>, "miti", 85)
    ELSE IF EndsWith(t, <<"d", "-i", "t", "-i">>)
    THEN Rule(DropLast(t, 4) \o <<"t", "+">>, "diti", 85)
    ELSE IF EndsWith(t, <<"r", "-i", "t", "-i">>)
    THEN LET before == SliceJS(t, 0 - 5, 0 - 4)
         IN  IF before = <<"-r">> \/ before = <<"-rr">>
             THEN Rule(DropLast(t, 4), "riti-rvowel", 80)
             ELSE Rule(DropLast(t, 4) \o <<"H">>, "riti-visarga", 88)
    ELSE IF EndsWith(t, <<"y", "-e", "bh", "+", "y", "r", "-i", "t", "-i">>)
    THEN Rule(DropLast(t, 8) \o <<"y", "-e", "bh", "+", "y", "H">>, "yebhyariti", 95)
    ELSE IF EndsWith(t, <<"-e", "bh", "+", "y", "r", "-i", "t", "-i">>)
    THEN Rule(DropLast(t, 8) \o <<"-e", "bh", "+", "y", "H">>, "ebhyariti", 95)
    ELSE IF EndsWith(t, <<"bh", "+", "y", "-aa", "m", "-i", "t", "-i">>)
    THEN Rule(DropLast(t, 7), "bhyaamiti", 95)
    ELSE IF EndsWith(t, <<"-aa", "n", "-aa", "m", "-i", "t", "-i">>)
    THEN Rule(DropLast(t, 7), "aanaamiti", 95)
    ELSE IF EndsWith(t, <<"nn", "-aa", "m", "-i", "t", "-i">>)
    THEN Rule(DropLast(t, 6), "naamiti", 95)
    ELSE IF EndsWith(t, <<"y", "-aa", "m", "-i", "t", "-i">>)
    THEN Rule(DropLast(t, 6), "yaamiti", 95)
    ELSE IF EndsWith(t, <<"y", "-aa", "r", "-i", "t", "-i">>)
    THEN Rule(DropLast(t, 5) \o <<"y", "-aa", "H">>, "yaar{093F}{0924}{093F}", 90)
    ELSE IF EndsWith(t, <<"-e", "nn", "-e", "t", "-i">>)
    THEN Rule(DropLast(t, 4), "eneti", 90)
    ELSE IF EndsWith(t, <<"-o", "r", "-i", "t", "-i">>)
    THEN Rule(DropLast(t, 5) \o <<"-o", "H">>, "oriti", 90)
    ELSE IF EndsWith(t, <<"ss", "+", "v", "-i", "t", "-i">>)
    THEN Rule(DropLast(t, 5), "shviti", 85)
    ELSE IF EndsWith(t, <<"s", "+", "v", "-i", "t", "-i">>)
    THEN Rule(DropLast(t, 5), "sviti", 85)
    ELSE IF EndsWith(t, <<"-ai", "r", "-i", "t", "-i">>)
    THEN Rule(DropLast(t, 5) \o <<"-ai", "H">>, "airiti", 85)
    ELSE IF EndsWith(t, <<"-aa", "n", "-i", "t", "-i">>)
    THEN Rule(DropLast(t, 5), "aaniti", 80)
    ELSE IF EndsWith(t, <<"-aa", "n", "-ii", "t", "-i">>)
    THEN Rule(DropLast(t, 6), "aaneeiti", 80)
    ELSE IF EndsWith(t, <<"-o", "t", "-i">>)
    THEN LET beforeO == SliceJS(t, 0 - 4, 0 - 3)
         IN  IF beforeO # <<>> /\ beforeO[1] \in OtiConsonants
             THEN Rule(DropLast(t, 3) \o <<"H">>, "oti-visarga", 70)
             ELSE Rule(DropLast(t, 3), "oti", 65)
    ELSE IF EndsWith(t, <<"-e", "t", "-i">>)
    THEN Rule(DropLast(t, 3), "eti", 65)
    ELSE IF EndsWith(t, <<"-ii", "t", "-i">>)
    THEN Rule(DropLast(t, 3), "eeti", 70)
    ELSE IF EndsWith(t, <<"-uu", "t", "-i">>)
    THEN Rule(DropLast(t, 3), "ooti", 70)
    ELSE IF EndsWith(t, <<"-ai", "t", "-i">>)
    THEN Rule(DropLast(t, 3), "aiti", 70)
    ELSE IF EndsWith(t, <<"-au", "t", "-i">>)
    THEN Rule(DropLast(t, 3), "auti", 70)
    ELSE IF EndsWith(t, <<"l", "-i", "t", "-i">>)
    THEN Rule(DropLast(t, 4), "liti", 80)
    ELSE IF EndsWith(t, <<"v", "-i", "t", "-i">>)
    THEN Rule(DropLast(t, 4), "viti", 75)
    ELSE IF EndsWith(t, <<"y", "-e", "t", "-i">>)
    THEN Rule(DropLast(t, 4), "yeti", 75)
    ELSE Rule(DropLast(t, 3), "generic", 60)

\* the space-separated case once the word before iti is cut out
SpaceSeparatedResult(trimmedText, wordBeforeIti) ==
    IF endsWithVowelMark(wordBeforeIti) \/ endsWithVisargaOrAnusvara(wordBeforeIti)
    THEN NotPratika(trimmedText)
    ELSE [kind |-> "value", isPratika |-> TRUE, originalText |-> trimmedText,
          stem |-> wordBeforeIti, pattern |-> "space-iti-inherent-a",
          itiEnding |-> <<" ">> \o Iti, confidence |-> 75]

\* the space-separated case: <word> <whitespace> iti
SpaceSeparatedCase(trimmedText) ==
    SpaceSeparatedResult(trimmedText, WordBeforeIti(trimmedText))

\* a check that turns away the stems of two characters as well
FusedResultLongStems(trimmedText, r, stem) ==
    IF Len(stem) < 3
    THEN NotPratika(trimmedText)
    ELSE [kind |-> "value", isPratika |-> TRUE, originalText |-> trimmedText,
          stem |-> stem, pattern |-> r.pattern,
          itiEnding |-> SliceFrom(trimmedText, Len(r.working)),
          confidence |-> r.confidence]

\* the end of the fused case: the stem is normalised, a stem shorter than
\* two characters is no quotation
FusedResult(trimmedText, r, stem) ==
    IF Len(stem) < 2
    THEN NotPratika(trimmedText)
    ELSE [kind |-> "value", isPratika |-> TRUE, originalText |-> trimmedText,
          stem |-> stem, pattern |-> r.pattern,
          itiEnding |-> SliceFrom(trimmedText, Len(r.working)),
          confidence |-> r.confidence]

FusedStem(trimmedText, r) == FusedResult(trimmedText, r, NFC(r.working))

\* the fused case: the cascade, then the check of the stem's length
FusedCase(trimmedText) == FusedStem(trimmedText, RuleCascade(trimmedText))

\* identifyPratika on the trimmed and normalised text
IdentifyTrimmed(trimmedText) ==
    IF ~ShapeGate(trimmedText) THEN NotPratika(trimmedText)
    ELSE IF EndsWithSpaceIti(trimmedText) THEN SpaceSeparatedCase(trimmedText)
    ELSE FusedCase(trimmedText)

\* identifyPratika without the trimming of its text
identifyPratikaUntrimmed(text) ==
    IF Falsy(text) \/ text.t # "string"
    THEN [kind |-> "null"]
    ELSE IdentifyTrimmed(NFC(text.s))

\* identifyPratika(text); patternDescription, a fixed text per pattern, is left out
identifyPratika(text) ==
    IF Falsy(text) \/ text.t # "string"
    THEN [kind |-> "null"]
    ELSE IdentifyTrimmed(NFC(Trim(text.s)))

(***************************************************************************)
(* SanskritSandhiRules (sandhi-rules.js).                                  *)
(***************************************************************************)
SandhiRule(pattern, following, res, rule) ==
    [pattern |-> pattern, following |-> following, result |-> res, rule |-> rule]

\* the character class the two last visarga rules carry as a literal string
VowelClassLiteral == <<"[", "A", "I", "U", "R", "E", "O", "]">>

vowelSandhi ==
    << SandhiRule(<<"A">>, <<"A">>, <<"AA">>, "a+a=aa"),
       SandhiRule(<<"A">>, <<"I">>, <<"E">>, "a+i=e"),
       SandhiRule(<<"A">>, <<"U">>, <<"O">>, "a+u=o"),
       SandhiRule(<<"A">>, <<"R">>, <<"A", "r", "+">>, "a+r=ar"),
       SandhiRule(<<"AA">>, <<"I">>, <<"AI">>, "aa+i=ai"),
       SandhiRule(<<"AA">>, <<"U">>, <<"AU">>, "aa+u=au"),
       SandhiRule(<<"I">>, <<"A">>, <<"y">>, "i+a=ya"),
       SandhiRule(<<"U">>, <<"A">>, <<"v">>, "u+a=va"),
       SandhiRule(<<"R">>, <<"A">>, <<"r">>, "r+a=ra"),
       SandhiRule(<<"E">>, <<"A">>, <<"E">>, "e+a=e"),
       SandhiRule(<<"O">>, <<"A">>, <<"O">>, "o+a=o") >>

consonantSandhi ==
    << SandhiRule(<<"t", "+">>, <<"c">>, <<"c", "+", "c">>, "t+c=cc"),
       SandhiRule(<<"t", "+">>, <<"j">>, <<"j", "+", "j">>, "t+j=jj"),
       SandhiRule(<<"t", "+">>, <<"sh">>, <<"c", "+", "ch">>, "t+sh=cch"),
       SandhiRule(<<"d", "+">>, <<"c">>, <<"c", "+", "c">>, "d+c=cc"),
       SandhiRule(<<"n", "+">>, <<"c">>, <<"ny", "+", "c">>, "n+c=nyc"),
       SandhiRule(<<"n", "+">>, <<"j">>, <<"ny", "+", "j">>, "n+j=nyj"),
       SandhiRule(<<"m", "+">>, <<"p">>, <<"m", "+", "p">>, "m+p=mp"),
       SandhiRule(<<"m", "+">>, <<"b">>, <<"m", "+", "b">>, "m+b=mb") >>

visargaSandhi ==
    << SandhiRule(<<"H">>, <<"k">>, <<"ss", "+", "k">>, "h+k=shk"),
       SandhiRule(<<"H">>, <<"p">>, <<"ss", "+", "p">>, "h+p=shp"),
       SandhiRule(<<"H">>, <<"t">>, <<"s", "+", "t">>, "h+t=st"),
       SandhiRule(<<"H">>, <<"c">>, <<"sh", "+", "c">>, "h+c=shc"),
       SandhiRule(<<"H">>, <<"A">>, <<"O">>, "ah+a=o"),
       SandhiRule(<<"H">>, VowelClassLiteral, <<"r", "+">>, "h+vowel=r"),
       SandhiRule(<<"H">>, VowelClassLiteral, <<>>, "h+vowel=drop") >>

\* pattern: the characters the term must end with (the regular expression
\* is the literal followed by $)
endingVariations ==
    << [pattern |-> <<"H">>, variations |-> << <<>>, <<"h", "+">> >>,
        rule |-> "nom-sg-visarga"],
       [pattern |-> <<"m", "+">>, variations |-> << <<>>, <<"n", "+">> >>,
        rule |-> "acc-sg-anusvara"],
       [pattern |-> <<"A">>, variations |-> << <<"-o">>, <<"M">> >>,
        rule |-> "ending-a"] >>

Variation(text, rule) == [text |-> text, rule |-> rule]

\* one rule of trySplitSandhi / tryVowelCombinations: the first occurrence
\* of rule.result is replaced by rule.pattern + rule.following
SplitAtIndex(term, rule, prefix, index) ==
    IF index = 0 - 1 THEN <<>>
    ELSE << Variation(SliceJS(term, 0, index) \o rule.pattern \o rule.following
                        \o SliceFrom(term, index + Len(rule.result)),
                      <<prefix, rule.rule>>) >>

SplitAt(term, rule, prefix) ==
    SplitAtIndex(term, rule, prefix, IndexOf(term, rule.result, 0))

RECURSIVE SplitAll(_, _, _)
SplitAll(term, rules, prefix) ==
    IF rules = <<>> THEN <<>>
    ELSE SplitAt(term, Head(rules), prefix) \o SplitAll(term, Tail(rules), prefix)

\* a splitter that leaves the vowel rules to tryVowelCombinations
trySplitSandhiOfConsonants(term) ==
    SplitAll(term, consonantSandhi \o visargaSandhi, "reverse-")

\* every rule, of vowels, consonants and visarga, is tried in reverse
trySplitSandhi(term) ==
    SplitAll(term, vowelSandhi \o consonantSandhi \o visargaSandhi, "reverse-")

\* if (newTerm !== term) variations.push(...)
KeepIfNew(term, newTerm, rule) ==
    IF newTerm # term THEN <<Variation(newTerm, rule)>> ELSE <<>>

RECURSIVE EndingVariants(_, _, _)
EndingVariants(term, ending, variations) ==
    IF variations = <<>> THEN <<>>
    ELSE KeepIfNew(term, DropLast(term, Len(ending.pattern)) \o Head(variations),
                   <<ending.rule>>)
         \o EndingVariants(term, ending, Tail(variations))

RECURSIVE EndingsAll(_, _)
EndingsAll(term, endings) ==
    IF endings = <<>> THEN <<>>
    ELSE (IF EndsWith(term, Head(endings).pattern)
          THEN EndingVariants(term, Head(endings), Head(endings).variations)
          ELSE <<>>)
         \o EndingsAll(term, Tail(endings))

tryEndingVariations(term) == EndingsAll(term, endingVariations)

tryVowelCombinations(term) == SplitAll(term, vowelSandhi, "expand-")

\* a filter that keeps every variation
KeepEveryVariation(vs, seen) == vs

\* the filter of generateVariations: the first variation of each text is kept
RECURSIVE UniqueByText(_, _)
UniqueByText(vs, seen) ==
    IF vs = <<>> THEN <<>>
    ELSE IF Head(vs).text \in seen THEN UniqueByText(Tail(vs), seen)
    ELSE <<Head(vs)>> \o UniqueByText(Tail(vs), seen \cup {Head(vs).text})

generateVariations(term) ==
    UniqueByText(<<Variation(term, <<"original">>)>> \o trySplitSandhi(term)
                   \o tryEndingVariations(term) \o tryVowelCombinations(term), {})

(***************************************************************************)
(* SanskritSearch (sanskrit-search.js).                                    *)
(***************************************************************************)
DefaultContextLength == 50
DefaultMaxResults == 100

\* the constructor: an option left out (0 for a number) takes its default
SanskritSearchConfig(options) ==
    [caseSensitive |-> options.caseSensitive,
     contextLength |-> IF options.contextLength = 0 THEN DefaultContextLength
                       ELSE options.contextLength,
     enableSandhi  |-> options.enableSandhi,
     maxResults    |-> IF options.maxResults = 0 THEN DefaultMaxResults
                       ELSE options.maxResults]

\* s with every occurrence of pat, left to right, replaced by rep
RECURSIVE ReplaceAll(_, _, _)
ReplaceFrom(s, pat, rep, i) ==
    IF i = 0 - 1 THEN s
    ELSE SliceJS(s, 0, i) \o rep \o ReplaceAll(SliceFrom(s, i + Len(pat)), pat, rep)

ReplaceAll(s, pat, rep) == ReplaceFrom(s, pat, rep, IndexOf(s, pat, 0))

\* [...new Set(xs)]: the first occurrence of each element, in order
RECURSIVE Unique(_, _)
Unique(xs, seen) ==
    IF xs = <<>> THEN <<>>
    ELSE IF Head(xs) \in seen THEN Unique(Tail(xs), seen)
    ELSE <<Head(xs)>> \o Unique(Tail(xs), seen \cup {Head(xs)})

\* generatePhoneticVariants; the branches for the other scripts test for
\* characters outside the table above and add nothing
generatePhoneticVariants(term) ==
    Unique(<<term>>
           \o (IF Includes(term, <<"m", "+">>)
               THEN <<ReplaceAll(term, <<"m", "+">>, <<"M">>)>> ELSE <<>>)
           \o (IF Includes(term, <<"M">>)
               THEN <<ReplaceAll(term, <<"M">>, <<"m", "+">>)>> ELSE <<>>)
           \o (IF Includes(term, <<"H">>)
               THEN <<ReplaceAll(term, <<"H">>, <<"s", "+">>)>> ELSE <<>>)
           \o (IF Includes(term, <<"s", "+">>)
               THEN <<IF EndsWith(term, <<"s", "+">>)
                      THEN DropLast(term, 2) \o <<"H">> ELSE term>>
               ELSE <<>>),
           {})

\* the character class of hasEndingMarker: marks, vowel signs, virama and,
\* being written inside the class, the letter ma itself (the characters of
\* the other scripts are outside the table above)
EndingMarkerClass ==
    {"M", "H", "~", "-aa", "-i", "-ii", "-u", "-uu", "-e", "-ai", "-o", "-au",
     "-r", "-rr", "-l", "-ll", "+", "Hk", "Hp", "m"}

hasEndingMarker(term) == term # <<>> /\ term[Len(term)] \in EndingMarkerClass

\* the class sanskritEndings of directSearch
sanskritEndings ==
    {"M", "H", "~", "-aa", "-i", "-ii", "-u", "-uu", "-e", "-ai", "-o", "-au",
     "-r", "-rr", "-l", "-ll", "+", "Hk", "Hp"}

\* getContext
getContext(config, text, position, length) ==
    LET start == Max(0, position - config.contextLength)
        end   == Min(Len(text), position + length + config.contextLength)
    IN  [before |-> SliceJS(text, start, position),
         match  |-> Substr(text, position, length),
         after  |-> SliceJS(text, position + length, end),
         full   |-> SliceJS(text, start, end)]

\* a duplicate test that finds nothing
isDuplicateNever(match, existingMatches) == FALSE

\* isDuplicate: the same position and the same length
isDuplicate(match, existingMatches) ==
    \E i \in 1..Len(existingMatches) :
        /\ existingMatches[i].position = match.position
        /\ existingMatches[i].length = match.length

\* matches.sort((a, b) => a.position - b.position): a stable sort
RECURSIVE InsertByPosition(_, _)
InsertByPosition(sorted, m) ==
    IF sorted = <<>> THEN <<m>>
    ELSE IF sorted[Len(sorted)].position <= m.position THEN Append(sorted, m)
    ELSE Append(InsertByPosition(SubSeq(sorted, 1, Len(sorted) - 1), m),
                sorted[Len(sorted)])

RECURSIVE SortFrom(_, _)
SortFrom(sorted, rest) ==
    IF rest = <<>> THEN sorted
    ELSE SortFrom(InsertByPosition(sorted, Head(rest)), Tail(rest))

\* the matches left in the order they were pushed
SortByPositionSkipped(matches) == matches

SortByPosition(matches) == SortFrom(<<>>, matches)

\* what a scan yields: its matches, or hung when the loop never ends
Scanned(matches) == [hung |-> FALSE, matches |-> matches]
Hang == [hung |-> TRUE, matches |-> <<>>]

\* the matches of two scans one after the other
Join(first, second) ==
    IF first.hung \/ second.hung THEN Hang
    ELSE Scanned(first.matches \o second.matches)

\* an extension that counts the character after the marks as well
RECURSIVE ExtendOneTooFar(_, _)
ExtendOneTooFar(text, nextCharPos) ==
    IF nextCharPos < Len(text) /\ text[nextCharPos + 1] \in sanskritEndings
    THEN ExtendOneTooFar(text, nextCharPos + 1) ELSE nextCharPos + 1

\* the length of a direct match: the term's, extended over the marks that
\* follow it when the term does not itself end in a mark
RECURSIVE ExtendOverMarks(_, _)
ExtendOverMarks(text, nextCharPos) ==
    IF nextCharPos < Len(text) /\ text[nextCharPos + 1] \in sanskritEndings
    THEN ExtendOverMarks(text, nextCharPos + 1) ELSE nextCharPos

\* a match that is never longer than the term
MatchLengthOfTerm(searchTerm, text, pos) == Len(searchTerm)

MatchLength(searchTerm, text, pos) ==
    IF searchTerm # <<>> /\ searchTerm[Len(searchTerm)] \in sanskritEndings
    THEN Len(searchTerm)
    ELSE ExtendOverMarks(text, pos + Len(searchTerm)) - pos

\* the object pushed for a hit
DirectMatchOf(config, text, pos, matchLength) ==
    [position |-> pos, length |-> matchLength,
     matchedText |-> Substr(text, pos, matchLength),
     context |-> getContext(config, text, pos, matchLength),
     type |-> "direct"]

DirectMatch(config, searchTerm, text, pos) ==
    DirectMatchOf(config, text, pos, MatchLength(searchTerm, text, pos))

\* the strings directSearch compares
DirectSearchStr(config, str) == IF config.caseSensitive THEN str ELSE ToLowerCase(str)

\* the position of the next hit of the scan loop, or -1
NextHit(config, searchTerm, text, pos) ==
    IndexOf(DirectSearchStr(config, text), DirectSearchStr(config, searchTerm), pos)

\* the position the scan loop goes on from after a hit at pos
Advance(searchTerm, pos) == pos + Len(searchTerm)

\* the scan loop of directSearch from position pos on; an iteration that
\* leaves the position where it was is repeated for ever
RECURSIVE DirectScan(_, _, _, _)
ScanHit(config, searchTerm, text, hit) ==
    IF hit = 0 - 1 THEN Scanned(<<>>)
    ELSE IF Advance(searchTerm, hit) <= hit THEN Hang
    ELSE Join(Scanned(<<DirectMatch(config, searchTerm, text, hit)>>),
              DirectScan(config, searchTerm, text, Advance(searchTerm, hit)))

DirectScan(config, searchTerm, text, pos) ==
    ScanHit(config, searchTerm, text, NextHit(config, searchTerm, text, pos))

directSearch(config, searchTerm, text) == DirectScan(config, searchTerm, text, 0)

\* a match of a variant that is left as directSearch made it
TaggedNotAtAll(m, type, variant, searchTerm) == m

\* a match of a variant as sandhiAwareSearch and pratikaGrahanaSearch retag it
Tagged(m, type, variant, searchTerm) ==
    IF type = "sandhi"
    THEN [position |-> m.position, length |-> m.length,
          matchedText |-> m.matchedText, context |-> m.context,
          type |-> "sandhi", sandhiRule |-> variant.rule,
          originalTerm |-> searchTerm]
    ELSE [position |-> m.position, length |-> m.length,
          matchedText |-> m.matchedText, context |-> m.context,
          type |-> "pratika-grahana", pratikaPattern |-> variant.pattern,
          originalTerm |-> searchTerm]

\* variantMatches.forEach: every match of one variant retagged
TagAll(scan, type, variant, searchTerm) ==
    IF scan.hung THEN Hang
    ELSE Scanned([i \in 1..Len(scan.matches) |->
                    Tagged(scan.matches[i], type, variant, searchTerm)])

\* variations.forEach: the direct matches of every variant in turn, retagged;
\* Hang when one of the scans never ends
RECURSIVE VariantMatches(_, _, _, _, _)
VariantMatches(config, variations, text, type, searchTerm) ==
    IF variations = <<>> THEN Scanned(<<>>)
    ELSE Join(TagAll(directSearch(config, Head(variations).text, text), type,
                     Head(variations), searchTerm),
              VariantMatches(config, Tail(variations), text, type, searchTerm))

\* sandhiAwareSearch
sandhiAwareSearch(config, searchTerm, text) ==
    VariantMatches(config, generateVariations(searchTerm), text, "sandhi", searchTerm)

\* forEach(match => { if (!isDuplicate(match, acc)) acc.push(match) })
RECURSIVE MergeNew(_, _)
MergeNew(acc, found) ==
    IF found = <<>> THEN acc
    ELSE MergeNew(IF isDuplicate(Head(found), acc) THEN acc ELSE Append(acc, Head(found)),
                  Tail(found))

\* matches.slice(0, maxResults)
Cap(config, matches) == SliceJS(matches, 0, config.maxResults)

\* JavaScript undefined, as the value of a field
Undefined == <<"undefined">>

\* the early return of search, exactWordSearch and searchWithPratikaGrahana
EmptyResult == [kind |-> "value", matches |-> <<>>, count |-> 0]

\* a call that raised a TypeError, and a call that never returns
Threw == [kind |-> "throw", error |-> "TypeError"]
Hung == [kind |-> "hang"]

\* a result that loses its matches once the clock has gone on
ResultsExpiring(matches, searchTerm, now) ==
    [kind |-> "value", matches |-> IF now > 0 THEN <<>> ELSE matches,
     count |-> IF now > 0 THEN 0 ELSE Len(matches),
     searchTerm |-> searchTerm, timestamp |-> now]

Results(matches, searchTerm, now) ==
    [kind |-> "value", matches |-> matches, count |-> Len(matches),
     searchTerm |-> searchTerm, timestamp |-> now]

\* the class of the word boundary pattern, \s and the punctuation (the
\* punctuation outside the table of characters is left out)
BoundaryChars == WhiteSpace \cup {"danda", "ddanda", ",", "[", "]"}

\* the boundary pattern (?:^|[class]|$) at position p: the number of
\* characters each alternative that matches there consumes, in order
BoundaryAt(text, p) ==
    (IF p = 0 THEN <<0>> ELSE <<>>)
    \o (IF p < Len(text) /\ text[p + 1] \in BoundaryChars THEN <<1>> ELSE <<>>)
    \o (IF p = Len(text) THEN <<0>> ELSE <<>>)

\* the trailing boundaries that match once the variant is found at vstart
TrailsAt(text, variant, vstart) ==
    IF OccursAt(text, variant, vstart)
    THEN BoundaryAt(text, vstart + Len(variant)) ELSE <<>>

\* the lengths of match[0] for one leading boundary and each trailing one
WholeLengths(lead, variant, trails) ==
    [j \in 1..Len(trails) |-> lead + Len(variant) + trails[j]]

\* the leading boundaries tried in turn
RECURSIVE TryLeads(_, _, _, _)
TryLeads(text, variant, index, leads) ==
    IF leads = <<>> THEN <<>>
    ELSE WholeLengths(Head(leads), variant,
                      TrailsAt(text, variant, index + Head(leads)))
         \o TryLeads(text, variant, index, Tail(leads))

\* the lengths of match[0] for the matches of boundary (variant) boundary
\* that start at index, in the order the backtracking tries them
RegexMatchesAt(text, variant, index) ==
    TryLeads(text, variant, index, BoundaryAt(text, index))

\* the match found at index i, or no match for -1
ExecAt(text, variant, i) ==
    IF i = 0 - 1 THEN [index |-> 0 - 1, length |-> 0]
    ELSE [index |-> i, length |-> RegexMatchesAt(text, variant, i)[1]]

\* pattern.exec(text) with the g flag from lastIndex on: the first index
\* with a match and the length of match[0], or index -1
RegexExec(text, variant, lastIndex) ==
    ExecAt(text, variant,
           Least({i \in lastIndex..Len(text) : RegexMatchesAt(text, variant, i) # <<>>}))

\* match[0] ends with a character of the boundary class
EndsWithBoundary(text, m) ==
    m.length > 0 /\ text[m.index + m.length] \in BoundaryChars

\* the start of the captured variant inside match[0]
\* the start of a match taken to be where the pattern began to match
MatchStartAtIndex(text, variant, m) == m.index

MatchStart(text, variant, m) ==
    m.index + (m.length - Len(variant) - (IF EndsWithBoundary(text, m) THEN 1 ELSE 0))

ExactMatch(config, searchTerm, text, variant, position) ==
    [position |-> position, length |-> Len(variant), matchedText |-> variant,
     context |-> getContext(config, text, position, Len(variant)),
     type |-> "exact",
     variant |-> IF variant # searchTerm THEN variant ELSE Undefined]

\* the duplicate test of exactWordSearch: the same position
SamePosition(position, matches) ==
    \E i \in 1..Len(matches) : matches[i].position = position

\* if (!isDuplicate) results.matches.push({...})
PushExact(config, searchTerm, text, variant, position, acc) ==
    IF SamePosition(position, acc) THEN acc
    ELSE Append(acc, ExactMatch(config, searchTerm, text, variant, position))

\* the while loop over pattern.exec for one variant
RECURSIVE BoundaryLoop(_, _, _, _, _, _)
BoundaryStep(config, searchTerm, text, variant, m, acc) ==
    IF m.index = 0 - 1 THEN Scanned(acc)
    ELSE IF m.length = 0 THEN Hang
    ELSE BoundaryLoop(config, searchTerm, text, variant, m.index + m.length,
                      PushExact(config, searchTerm, text, variant,
                                MatchStart(text, variant, m), acc))

BoundaryLoop(config, searchTerm, text, variant, lastIndex, acc) ==
    BoundaryStep(config, searchTerm, text, variant,
                 RegexExec(text, variant, lastIndex), acc)

\* the fallback loop over text.indexOf(variant, index) for one variant
RECURSIVE SubstringLoop(_, _, _, _, _, _)
SubstringStep(config, searchTerm, text, variant, hit, acc) ==
    IF hit = 0 - 1 THEN Scanned(acc)
    ELSE IF Len(variant) = 0 THEN Hang
    ELSE SubstringLoop(config, searchTerm, text, variant, hit + Len(variant),
                       PushExact(config, searchTerm, text, variant, hit, acc))

SubstringLoop(config, searchTerm, text, variant, index, acc) ==
    SubstringStep(config, searchTerm, text, variant, IndexOf(text, variant, index), acc)

\* the fallback of exactWordSearch: taken when no match has been found so far
SubstringFallback(config, searchTerm, text, variant, bounded) ==
    IF bounded.hung THEN Hang
    ELSE IF Len(bounded.matches) = 0
    THEN SubstringLoop(config, searchTerm, text, variant, 0, bounded.matches)
    ELSE bounded

\* the body of variants.forEach for one variant
ExactVariant(config, searchTerm, text, variant, acc) ==
    SubstringFallback(config, searchTerm, text, variant,
                      BoundaryLoop(config, searchTerm, text, variant, 0, acc))

RECURSIVE ExactVariants(_, _, _, _, _)
ExactRest(config, searchTerm, text, variants, one) ==
    IF one.hung THEN Hang
    ELSE ExactVariants(config, searchTerm, text, variants, one.matches)

ExactVariants(config, searchTerm, text, variants, acc) ==
    IF variants = <<>> THEN Scanned(acc)
    ELSE ExactRest(config, searchTerm, text, Tail(variants),
                   ExactVariant(config, searchTerm, text, Head(variants), acc))

\* the end of exactWordSearch: sort by position, count
ExactResults(found, searchTerm, now) ==
    IF found.hung THEN Hung
    ELSE Results(SortByPosition(found.matches), searchTerm, now)

\* exactWordSearch once both strings are normalised
ExactNormalized(config, now, searchTerm, text) ==
    ExactResults(ExactVariants(config, searchTerm, text,
                               generatePhoneticVariants(searchTerm), <<>>),
                 searchTerm, now)

\* exactWordSearch on two strings
exactWordSearch(config, now, searchTerm, text) ==
    IF searchTerm = <<>> \/ text = <<>> THEN EmptyResult
    ELSE ExactNormalized(config, now, NFC(searchTerm), NFC(text))

\* the end of the fuzzy mode: merge without duplicates, sort, cut, count
FuzzyResults(config, now, searchTerm, directMatches, sandhiMatches) ==
    IF directMatches.hung \/ sandhiMatches.hung THEN Hung
    ELSE Results(Cap(config, SortByPosition(
                     MergeNew(directMatches.matches, sandhiMatches.matches))),
                 searchTerm, now)

\* the body of search once both arguments are normalised strings
SearchStrings(config, now, searchTerm, text) ==
    IF hasEndingMarker(searchTerm)
    THEN \* precision mode: the result of exactWordSearch is returned as it is
         exactWordSearch(config, now, searchTerm, text)
    ELSE \* fuzzy mode
         FuzzyResults(config, now, searchTerm,
                      directSearch(config, searchTerm, text),
                      IF config.enableSandhi
                      THEN sandhiAwareSearch(config, searchTerm, text)
                      ELSE Scanned(<<>>))

\* the argument checks that search and searchWithPratikaGrahana share:
\* a falsy argument gives the empty result, normalize() on a value that is
\* no string raises a TypeError
ArgumentCheck(searchTerm, text) ==
    IF Falsy(searchTerm) \/ Falsy(text) THEN "empty"
    ELSE IF searchTerm.t # "string" \/ text.t # "string" THEN "throw"
    ELSE "ok"

\* search(searchTerm, text); the sandhi rules object is taken to be loaded
search(config, now, searchTerm, text) ==
    IF ArgumentCheck(searchTerm, text) = "empty" THEN EmptyResult
    ELSE IF ArgumentCheck(searchTerm, text) = "throw" THEN Threw
    ELSE SearchStrings(config, now, NFC(searchTerm.s), NFC(text.s))

\* itiSandhiMap.reverse, in the order of the source
itiReverse ==
    << <<<<"-e", "t", "-i">>, << <<>>, <<"A">>, <<"AA">> >> >>,
       <<<<"-ii", "t", "-i">>, << <<"I">>, <<"II">> >> >>,
       <<<<"-uu", "t", "-i">>, << <<"U">>, <<"UU">> >> >>,
       <<<<"v", "-ii", "t", "-i">>, << <<"U">>, <<"UU">> >> >>,
       <<<<"v", "-i", "t", "-i">>, << <<"U">>, <<"UU">> >> >>,
       <<<<"r", "-i", "t", "-i">>, << <<"R">>, <<"RR">> >> >>,
       <<<<"l", "-i", "t", "-i">>, << <<"L">>, <<"LL">> >> >>,
       <<<<"-ai", "t", "-i">>, << <<"E">>, <<"-ai">> >> >>,
       <<<<"-aa", "v", "-ii", "t", "-i">>, << <<"O">>, <<"AU">> >> >>,
       <<<<"-aa", "v", "-i", "t", "-i">>, << <<"O">>, <<"AU">> >> >>,
       <<<<"-o", "'", "t", "-i">>, << <<"O">> >> >>,
       <<<<"y", "-e", "t", "-i">>, << <<"y">>, <<"y", "-aa">>, <<"-aa", "y">> >> >>,
       <<<<"-e", "nn", "-e", "t", "-i">>, << <<"-e", "nn">> >> >>,
       <<<<"-aa", "d", "-i", "t", "-i">>, << <<"-aa", "t", "+">> >> >>,
       <<<<"s", "+", "y", "-e", "t", "-i">>, << <<"s", "+", "y">> >> >>,
       <<<<"m", "-i", "t", "-i">>, << <<"m", "+">>, <<"-aa", "m", "+">> >> >>,
       <<<<"y", "-aa", "m", "-i", "t", "-i">>, << <<"y", "-aa", "m", "+">> >> >>,
       <<<<"-au", "t", "-i">>, << <<"AU">> >> >>,
       <<<<"-o", "r", "-i", "t", "-i">>, << <<"y", "-o", "H">> >> >>,
       <<<<"bh", "+", "y", "-aa", "m", "-i", "t", "-i">>,
         << <<"bh", "+", "y", "-aa", "m", "+">> >> >>,
       <<<<"-aa", "n", "-i", "t", "-i">>, << <<"-aa", "n", "+">> >> >>,
       <<<<"-ai", "r", "-i", "t", "-i">>, << <<"-ai", "H">> >> >>,
       <<<<"bh", "-i", "r", "-i", "t", "-i">>, << <<"bh", "-i", "H">> >> >>,
       <<<<"-e", "bh", "+", "y", "r", "-i", "t", "-i">>,
         << <<"-e", "bh", "+", "y", "H">> >> >>,
       <<<<"-aa", "n", "-aa", "m", "-i", "t", "-i">>, << <<"-aa", "n", "-aa", "m", "+">> >> >>,
       <<<<"nn", "-aa", "m", "-i", "t", "-i">>, << <<"nn", "-aa", "m", "+">> >> >>,
       <<<<"ss", "+", "v", "-i", "t", "-i">>, << <<"-e", "ss", "-u">> >> >>,
       <<<<"s", "+", "v", "-i", "t", "-i">>, << <<"s", "-u">> >> >>,
       <<<<"y", "-aa", "r", "-i", "t", "-i">>, << <<"y", "-aa", "H">> >> >>,
       <<<<"-aa", "H", " ", "I", "t", "-i">>, << <<"-aa", "H">> >> >>,
       <<<<"-aa", " ", "I", "t", "-i">>, << <<"-aa", "H">> >> >> >>

\* itiSandhiMap.forward, in the order of the source; the key U+0914 is
\* written twice and keeps its first place with its second value
itiForward ==
    << <<<<>>, <<"-e", "t", "-i">>>>,
       <<<<"A">>, <<"-e", "t", "-i">>>>,
       <<<<"AA">>, <<"-e", "t", "-i">>>>,
       <<<<"I">>, <<"-ii", "t", "-i">>>>,
       <<<<"II">>, <<"-ii", "t", "-i">>>>,
       <<<<"U">>, <<"v", "-ii", "t", "-i">>>>,
       <<<<"UU">>, <<"v", "-ii", "t", "-i">>>>,
       <<<<"R">>, <<"r", "-i", "t", "-i">>>>,
       <<<<"RR">>, <<"r", "-i", "t", "-i">>>>,
       <<<<"L">>, <<"l", "-i", "t", "-i">>>>,
       <<<<"LL">>, <<"l", "-i", "t", "-i">>>>,
       <<<<"E">>, <<"-ai", "t", "-i">>>>,
       <<<<"-e">>, <<"-ai", "t", "-i">>>>,
       <<<<"AI">>, <<"-ai", "t", "-i">>>>,
       <<<<"-ai">>, <<"-ai", "t", "-i">>>>,
       <<<<"O">>, <<"-aa", "v", "-ii", "t", "-i">>>>,
       <<<<"AU">>, <<"-au", "t", "-i">>>>,
       <<<<"y">>, <<"y", "-e", "t", "-i">>>>,
       <<<<"y", "-aa">>, <<"y", "-e", "t", "-i">>>>,
       <<<<"-aa", "y">>, <<"-aa", "y", "-e", "t", "-i">>>>,
       <<<<"-e", "nn">>, <<"-e", "nn", "-e", "t", "-i">>>>,
       <<<<"-aa", "t", "+">>, <<"-aa", "d", "-i", "t", "-i">>>>,
       <<<<"s", "+", "y">>, <<"s", "+", "y", "-e", "t", "-i">>>>,
       <<<<"m", "+">>, <<"m", "-i", "t", "-i">>>>,
       <<<<"-aa", "m", "+">>, <<"m", "-i", "t", "-i">>>>,
       <<<<"y", "-aa", "m", "+">>, <<"y", "-aa", "m", "-i", "t", "-i">>>>,
       <<<<"y", "-o", "H">>, <<"-o", "r", "-i", "t", "-i">>>>,
       <<<<"bh", "+", "y", "-aa", "m", "+">>, <<"bh", "+", "y", "-aa", "m", "-i", "t", "-i">>>>,
       <<<<"-aa", "n", "+">>, <<"-aa", "n", "-i", "t", "-i">>>>,
       <<<<"-ai", "H">>, <<"-ai", "r", "-i", "t", "-i">>>>,
       <<<<"bh", "-i", "H">>, <<"bh", "-i", "r", "-i", "t", "-i">>>>,
       <<<<"-e", "bh", "+", "y", "H">>, <<"-e", "bh", "+", "y", "r", "-i", "t", "-i">>>>,
       <<<<"-aa", "n", "-aa", "m", "+">>, <<"-aa", "n", "-aa", "m", "-i", "t", "-i">>>>,
       <<<<"nn", "-aa", "m", "+">>, <<"nn", "-aa", "m", "-i", "t", "-i">>>>,
       <<<<"-e", "ss", "-u">>, <<"ss", "+", "v", "-i", "t", "-i">>>>,
       <<<<"s", "-u">>, <<"s", "+", "v", "-i", "t", "-i">>>>,
       <<<<"y", "-aa", "H">>, <<"y", "-aa", "r", "-i", "t", "-i">>>>,
       <<<<"-aa", "H">>, <<"-aa", "H", " ", "I", "t", "-i">>>> >>

\* Object.keys(map).sort((a, b) => b.length - a.length): the entries by
\* decreasing length of the key, entries of one length in the map's order
RECURSIVE ByKeyLength(_, _)
ByKeyLength(entries, n) ==
    IF n < 0 THEN <<>>
    ELSE SelectSeq(entries, LAMBDA e : Len(e[1]) = n) \o ByKeyLength(entries, n - 1)

\* the length of the longest key
MaxKeyLength(entries) ==
    LET lens == {Len(entries[i][1]) : i \in 1..Len(entries)}
    IN  CHOOSE n \in lens : \A m \in lens : m <= n

LongestFirst(entries) == ByKeyLength(entries, MaxKeyLength(entries))

\* the word 'stem' in the pattern of a variation
StemWord == <<"stem">>

PratikaVariation(text, from, to) == [text |-> text, pattern |-> <<from, to>>]

\* REVERSE PATTERNS: every pattern the term ends with gives one variation
\* for each of its base endings
RECURSIVE ReverseEndings(_, _, _)
ReverseEndings(base, pattern, possibleEndings) ==
    IF possibleEndings = <<>> THEN <<>>
    ELSE LET ending == Head(possibleEndings)
         IN  <<PratikaVariation(base \o ending, pattern,
                                IF ending = <<>> THEN StemWord ELSE ending)>>
             \o ReverseEndings(base, pattern, Tail(possibleEndings))

\* a loop over the reverse patterns that stops at the first one the term
\* ends with
RECURSIVE ReverseVariationsFirstOnly(_, _)
ReverseVariationsFirstOnly(searchTerm, reversePatterns) ==
    IF reversePatterns = <<>> THEN <<>>
    ELSE IF EndsWith(searchTerm, Head(reversePatterns)[1])
    THEN ReverseEndings(DropLast(searchTerm, Len(Head(reversePatterns)[1])),
                        Head(reversePatterns)[1], Head(reversePatterns)[2])
    ELSE ReverseVariationsFirstOnly(searchTerm, Tail(reversePatterns))

RECURSIVE ReverseVariations(_, _)
ReverseVariations(searchTerm, reversePatterns) ==
    IF reversePatterns = <<>> THEN <<>>
    ELSE LET pattern == Head(reversePatterns)[1]
         IN  (IF EndsWith(searchTerm, pattern)
              THEN ReverseEndings(DropLast(searchTerm, Len(pattern)), pattern,
                                  Head(reversePatterns)[2])
              ELSE <<>>)
             \o ReverseVariations(searchTerm, Tail(reversePatterns))

\* searchTerm.slice(0, -ending.length)
SliceOffEnding(searchTerm, ending) == DropLast(searchTerm, Len(ending))

\* FORWARD PATTERNS: every ending the term ends with gives one variation
RECURSIVE ForwardVariations(_, _)
ForwardVariations(searchTerm, forwardPatterns) ==
    IF forwardPatterns = <<>> THEN <<>>
    ELSE LET ending == Head(forwardPatterns)[1]
             iti    == Head(forwardPatterns)[2]
         IN  (IF ending = <<>>
              THEN IF searchTerm # <<>> /\ searchTerm[Len(searchTerm)] \notin sanskritEndings
                   THEN <<PratikaVariation(searchTerm \o iti, StemWord, iti)>>
                   ELSE <<>>
              ELSE IF EndsWith(searchTerm, ending)
                   THEN <<PratikaVariation(SliceOffEnding(searchTerm, ending) \o iti,
                                           ending, iti)>>
                   ELSE <<>>)
             \o ForwardVariations(searchTerm, Tail(forwardPatterns))

generatePratikaVariations(searchTerm) ==
    ReverseVariations(searchTerm, LongestFirst(itiReverse))
    \o (IF ~EndsWith(searchTerm, <<"t", "-i">>)
        THEN ForwardVariations(searchTerm, LongestFirst(itiForward))
        ELSE <<>>)

\* pratikaGrahanaSearch
pratikaGrahanaSearch(config, searchTerm, text) ==
    VariantMatches(config, generatePratikaVariations(searchTerm), text,
                   "pratika-grahana", searchTerm)

\* the end of searchWithPratikaGrahana: the regular matches, then the
\* quotation matches that are no duplicates, sorted and cut
PratikaResults(config, now, searchTerm, regularResults, pratikaMatches) ==
    IF regularResults.kind # "value" THEN regularResults
    ELSE IF pratikaMatches.hung THEN Hung
    ELSE Results(Cap(config, SortByPosition(
                     MergeNew(regularResults.matches, pratikaMatches.matches))),
                 searchTerm, now)

\* searchWithPratikaGrahana once both arguments are normalised strings
PratikaStrings(config, now, searchTerm, text) ==
    PratikaResults(config, now, searchTerm,
                   search(config, now, JsString(searchTerm), JsString(text)),
                   pratikaGrahanaSearch(config, searchTerm, text))

\* searchWithPratikaGrahana(searchTerm, text)
searchWithPratikaGrahana(config, now, searchTerm, text) ==
    IF ArgumentCheck(searchTerm, text) = "empty" THEN EmptyResult
    ELSE IF ArgumentCheck(searchTerm, text) = "throw" THEN Threw
    ELSE PratikaStrings(config, now, NFC(searchTerm.s), NFC(text.s))

(***************************************************************************)
(* Search in several documents, with and without the index of their words. *)
(***************************************************************************)
\* the lists of a list, one after the other
RECURSIVE Flatten(_)
Flatten(lists) == IF lists = <<>> THEN <<>> ELSE Head(lists) \o Flatten(Tail(lists))

\* the class the words are split on, [\s.,;!?()[\]{}\u0964\u0965] (the
\* punctuation outside the table of characters is left out)
WordSeparators == WhiteSpace \cup {",", "[", "]", "danda", "ddanda"}

\* text.split(/[class]+/).filter(w => w.length > 0)
RECURSIVE SplitWords(_, _, _)
SplitWords(text, word, words) ==
    IF text = <<>> THEN (IF word = <<>> THEN words ELSE Append(words, word))
    ELSE IF Head(text) \in WordSeparators
    THEN SplitWords(Tail(text), <<>>, IF word = <<>> THEN words ELSE Append(words, word))
    ELSE SplitWords(Tail(text), Append(word, Head(text)), words)

\* extractWords: the unique words of a text
extractWords(text) == Unique(SplitWords(text, <<>>, <<>>), {})

\* index.terms.get(word): the indices, from 0, of the documents that hold
\* the word, in the order they were added
RECURSIVE DocsWith(_, _, _)
DocsWith(word, documents, docIndex) ==
    IF docIndex = Len(documents) THEN <<>>
    ELSE (IF \E k \in 1..Len(extractWords(documents[docIndex + 1].text.s)) :
                extractWords(documents[docIndex + 1].text.s)[k] = word
          THEN <<docIndex>> ELSE <<>>)
         \o DocsWith(word, documents, docIndex + 1)

\* createIndex
createIndex(documents) ==
    [documents |-> [i \in 1..Len(documents) |->
                      [id |-> documents[i].id, metadata |-> documents[i].metadata]],
     terms |-> [word \in UNION {{extractWords(documents[i].text.s)[k] :
                                    k \in 1..Len(extractWords(documents[i].text.s))} :
                                 i \in 1..Len(documents)}
                  |-> DocsWith(word, documents, 0)]]

\* what searchMultiple returns: the results of the documents with a match
Found(results) == [kind |-> "value", results |-> results]

\* {id: doc.id, metadata: doc.metadata || {}, ...results}
DocResult(doc, r) == r @@ [id |-> doc.id, metadata |-> doc.metadata]

\* searchMultiple: documents.map(...).filter(result => result.count > 0);
\* a search that throws or never returns ends the call
RECURSIVE MapDocuments(_, _, _, _, _)
FilterResult(config, now, searchTerm, documents, acc, r) ==
    IF r.kind # "value" THEN r
    ELSE MapDocuments(config, now, searchTerm, Tail(documents),
                      IF r.count > 0 THEN Append(acc, DocResult(Head(documents), r))
                      ELSE acc)

MapDocuments(config, now, searchTerm, documents, acc) ==
    IF documents = <<>> THEN Found(acc)
    ELSE FilterResult(config, now, searchTerm, documents, acc,
                      search(config, now, searchTerm, Head(documents).text))

searchMultiple(config, now, searchTerm, documents) ==
    MapDocuments(config, now, searchTerm, documents, <<>>)

\* words.forEach: the indices of the documents the index has under a word
\* of the term, each once, in the order they are met
RelevantDocIndices(words, index) ==
    Unique(Flatten([k \in 1..Len(words) |->
                      IF words[k] \in DOMAIN index.terms THEN index.terms[words[k]]
                      ELSE <<>>]), {})

\* Array.from(relevantDocIndices).map(idx => documents[idx])
RelevantDocs(indices, documents) ==
    [k \in 1..Len(indices) |-> documents[indices[k] + 1]]

\* searchWithIndex
searchWithIndex(config, now, searchTerm, index, documents) ==
    searchMultiple(config, now, searchTerm,
                   RelevantDocs(RelevantDocIndices(extractWords(searchTerm.s), index),
                                documents))

(***************************************************************************)
(* Bounds of the inputs.                                                   *)
(***************************************************************************)
MaxStemLen == 3

RECURSIVE SeqsUpTo(_, _)
\* every sequence over S of length at most n
SeqsUpTo(S, n) ==
    IF n = 0 THEN {<<>>}
    ELSE LET shorter == SeqsUpTo(S, n - 1)
         IN  shorter \cup {Append(q, c) : q \in {r \in shorter : Len(r) = n - 1}, c \in S}

\* characters a stem is built from: a bare consonant, the vowel signs the
\* shape gate and the look-back rules test, and a space
StemAlphabet == {"k", "-i", "-r", " "}

\* the suffix of every branch of the cascade
CascadeSuffixes ==
    {<<"y", "+", "v", "-i", "t", "-i">>, <<"-aa", "v", "-i", "t", "-i">>,
     <<"s", "+", "y", "-e", "t", "-i">>, <<"-aa", "y", "-e", "t", "-i">>,
     <<"bh", "-i", "r", "-i", "t", "-i">>, <<"m", "-i", "t", "-i">>, <<"d", "-i", "t", "-i">>,
     <<"r", "-i", "t", "-i">>, <<"y", "-e", "bh", "+", "y", "r", "-i", "t", "-i">>,
     <<"-e", "bh", "+", "y", "r", "-i", "t", "-i">>,
     <<"bh", "+", "y", "-aa", "m", "-i", "t", "-i">>, <<"-aa", "n", "-aa", "m", "-i", "t", "-i">>,
     <<"nn", "-aa", "m", "-i", "t", "-i">>, <<"y", "-aa", "m", "-i", "t", "-i">>,
     <<"y", "-aa", "r", "-i", "t", "-i">>, <<"-e", "nn", "-e", "t", "-i">>, <<"-o", "r", "-i", "t", "-i">>,
     <<"ss", "+", "v", "-i", "t", "-i">>, <<"s", "+", "v", "-i", "t", "-i">>,
     <<"-ai", "r", "-i", "t", "-i">>, <<"-aa", "n", "-i", "t", "-i">>, <<"-aa", "n", "-ii", "t", "-i">>,
     <<"-o", "t", "-i">>, <<"-e", "t", "-i">>, <<"-ii", "t", "-i">>, <<"-uu", "t", "-i">>,
     <<"-ai", "t", "-i">>, <<"-au", "t", "-i">>, <<"l", "-i", "t", "-i">>, <<"v", "-i", "t", "-i">>,
     <<"y", "-e", "t", "-i">>}

\* further endings: fused and space-separated iti after each kind of final
\* character, and endings that are no quotation at all
OtherTails ==
    {Iti, <<" ">> \o Iti, <<" ", " ">> \o Iti, <<"-i", "t", "-i">>, <<"-u", "t", "-i">>, <<"t", "-i">>,
     <<>>, <<"-rr", "r", "-i", "t", "-i">>, <<"-rr", "bh", "-i", "r", "-i", "t", "-i">>,
     <<"A", "-o", "t", "-i">>}
    \cup {<<c, " ">> \o Iti :
            c \in {"-e", "M", "~", "H", "+", "m"}}

PratikaTexts ==
    {pre \o tail : pre \in SeqsUpTo(StemAlphabet, MaxStemLen),
                   tail \in CascadeSuffixes \cup OtherTails}

\* values that are no string, for the argument checks
NonStrings == {JsNull, JsUndefined, JsNumber(0), JsNumber(5)}

MaxTextLen == 3

\* characters of the texts searched: two consonants, a mark, the virama,
\* an independent vowel and a space
SearchAlphabet == {"k", "m", "M", "+", "A", " "}

\* three longer texts: a word of the stem U+0915 with the vowel sign U+094B
\* before the word U+0915 U+092E U+094D, the word U+0915 U+0902 repeated,
\* and the quotation form of the stem U+0915
LongerTexts ==
    {<<"k", "-o", " ", "k", "m", "+">>, <<"k", "M", " ", "k", "M">>,
     <<"k", "-e", "t", "-i">>}

SearchTexts == SeqsUpTo(SearchAlphabet, MaxTextLen) \cup LongerTexts

\* the terms searched for: the empty term, every single character, and
\* longer terms: with a final mark, a final virama, a final consonant,
\* a repeated character, and the quotation ending U+0947 U+0924 U+093F
SearchTerms ==
    {<<>>} \cup {<<c>> : c \in SearchAlphabet}
    \cup {<<"k", "M">>, <<"m", "+">>, <<"k", "m">>, <<"k", "k">>, <<"A", "k">>,
          <<"-e", "t", "-i">>}

\* the options a SanskritSearch object is constructed with
DefaultOptions ==
    [caseSensitive |-> FALSE, contextLength |-> 0, enableSandhi |-> TRUE,
     maxResults |-> 0]

Options ==
    [caseSensitive : {FALSE}, contextLength : {0}, enableSandhi : BOOLEAN,
     maxResults : {0, 1}]

\* the iterations of a scan loop that are followed
MaxScanIterations == 3

(***************************************************************************)
(* State: the library object, the arguments the caller holds, the call     *)
(* made with them, and the locals of a directSearch that is followed step  *)
(* by step.                                                                *)
(***************************************************************************)
VARIABLES
    config,   \* this.config of the SanskritSearch object
    now,      \* the clock Date.now() reads
    args,     \* the arguments the caller passes
    pc,       \* "idle": no call made yet; "scan": inside the loop of
              \* directSearch; "done": the call returned; "threw": it raised
              \* an exception; "hung": it never returns
    op,       \* the method called
    result,   \* what it returned
    variant,  \* directSearch: its argument searchTerm
    pos,      \* directSearch: the local pos
    matches,  \* directSearch: the local matches
    previous  \* what the earlier call with the same arguments returned

vars == <<config, now, args, pc, op, result, variant, pos, matches, previous>>

NoResult == [kind |-> "none"]

PratikaArguments == {<<text>> : text \in NonStrings \cup {JsString(t) : t \in PratikaTexts}}

StringArguments == {JsString(t) : t \in SearchTerms} \X {JsString(t) : t \in SearchTexts}

SearchArguments ==
    ((NonStrings \cup {JsString(t) : t \in SearchTerms})
        \X {JsString(<<"k">>), JsString(<<>>)})
    \cup ({JsString(<<"k">>)} \X NonStrings)
    \cup StringArguments

\* no directSearch is followed
NoScan ==
    /\ variant = Null
    /\ pos = 0
    /\ matches = <<>>

\* a PratikaIdentifier has no configuration; a SanskritSearch object is
\* constructed with any of the options
Init ==
    /\ \/ args \in PratikaArguments /\ config = SanskritSearchConfig(DefaultOptions)
       \/ args \in SearchArguments /\ config \in {SanskritSearchConfig(o) : o \in Options}
    /\ now = 0
    /\ pc = "idle"
    /\ op = "none"
    /\ result = NoResult
    /\ previous = NoResult
    /\ NoScan

\* where a call of a method leaves the caller
Outcome(r) ==
    IF r.kind = "throw" THEN "threw" ELSE IF r.kind = "hang" THEN "hung" ELSE "done"

Called(method, r) ==
    /\ op' = method
    /\ result' = r
    /\ pc' = Outcome(r)
    /\ UNCHANGED <<config, now, args, variant, pos, matches, previous>>

\* a call of identifyPratika(text)
CallIdentifyPratika ==
    /\ pc = "idle"
    /\ Len(args) = 1
    /\ Called("identifyPratika", identifyPratika(args[1]))

\* a call of search(searchTerm, text)
CallSearch ==
    /\ pc = "idle"
    /\ Len(args) = 2
    /\ Called("search", search(config, now, args[1], args[2]))

\* a call of searchWithPratikaGrahana(searchTerm, text)
CallSearchWithPratikaGrahana ==
    /\ pc = "idle"
    /\ Len(args) = 2
    /\ Called("searchWithPratikaGrahana",
              searchWithPratikaGrahana(config, now, args[1], args[2]))

Next ==
    \/ CallIdentifyPratika
    \/ CallSearch
    \/ CallSearchWithPratikaGrahana

Spec == Init /\ [][Next]_vars

(***************************************************************************)
(* directSearch followed one iteration of its loop at a time, for the term *)
(* itself (as search calls it) and for each variant that                   *)
(* pratikaGrahanaSearch passes to it.                                      *)
(***************************************************************************)
ScanInit ==
    /\ args \in StringArguments
    /\ args[1].s # <<>>
    /\ args[2].s # <<>>
    /\ config = SanskritSearchConfig(DefaultOptions)
    /\ now = 0
    /\ pc = "idle"
    /\ op = "none"
    /\ result = NoResult
    /\ previous = NoResult
    /\ NoScan

\* the strings directSearch is called with for the term: the term, and the
\* text of each variation of generatePratikaVariations
ScannedFor(searchTerm) ==
    {searchTerm}
    \cup {generatePratikaVariations(searchTerm)[i].text :
            i \in 1..Len(generatePratikaVariations(searchTerm))}

\* directSearch(searchTerm, text) is entered: pos = 0, matches = []
EnterDirectSearch ==
    /\ pc = "idle"
    /\ \E v \in ScannedFor(NFC(args[1].s)) : variant' = v
    /\ pos' = 0
    /\ matches' = <<>>
    /\ pc' = "scan"
    /\ op' = "directSearch"
    /\ UNCHANGED <<config, now, args, result, previous>>

\* the hit the loop condition finds from pos on
ScanHitAt == NextHit(config, variant, NFC(args[2].s), pos)

\* one iteration of the while loop: the condition holds, a match is pushed
\* and pos moves on by the length of the term
ScanIteration ==
    /\ pc = "scan"
    /\ ScanHitAt # 0 - 1
    /\ Len(matches) < MaxScanIterations
    /\ matches' = Append(matches, DirectMatch(config, variant, NFC(args[2].s), ScanHitAt))
    /\ pos' = Advance(variant, ScanHitAt)
    /\ UNCHANGED <<config, now, args, pc, op, result, variant, previous>>

\* the loop condition fails: directSearch returns its matches
ScanReturn ==
    /\ pc = "scan"
    /\ ScanHitAt = 0 - 1
    /\ pc' = "done"
    /\ result' = [kind |-> "value", matches |-> matches, count |-> Len(matches)]
    /\ UNCHANGED <<config, now, args, op, variant, pos, matches, previous>>

ScanNext ==
    \/ EnterDirectSearch
    \/ ScanIteration
    \/ ScanReturn

SpecScan == ScanInit /\ [][ScanNext]_vars

(***************************************************************************)
(* The same call made twice on one object, while the clock that Date.now() *)
(* reads goes on.  No method writes a field of the object, so a call with  *)
(* other arguments between the two leaves the state as it is.              *)
(***************************************************************************)
\* the ticks of the clock that are followed
MaxClock == 2

\* the arguments of a repeated call: quotations of the stems of one
\* consonant, and every term on the texts of three characters
RepeatArguments ==
    {<<JsString(pre \o tail)>> : pre \in SeqsUpTo({"k"}, MaxStemLen),
                                 tail \in CascadeSuffixes \cup OtherTails}
    \cup ({JsString(t) : t \in SearchTerms}
            \X {JsString(t) : t \in SeqsUpTo({"k", "M", " "}, MaxTextLen)})

RepeatInit ==
    /\ args \in RepeatArguments
    /\ config = SanskritSearchConfig(DefaultOptions)
    /\ now = 0
    /\ pc = "idle"
    /\ op = "none"
    /\ result = NoResult
    /\ previous = NoResult
    /\ NoScan

\* time passes
Tick ==
    /\ now < MaxClock
    /\ now' = now + 1
    /\ UNCHANGED <<config, args, pc, op, result, variant, pos, matches, previous>>

\* the method called before is called once more with the same arguments
CallAgain ==
    /\ pc = "done"
    /\ previous = NoResult
    /\ previous' = result
    /\ result' = IF op = "identifyPratika" THEN identifyPratika(args[1])
                 ELSE search(config, now, args[1], args[2])
    /\ UNCHANGED <<config, now, args, pc, op, variant, pos, matches>>

RepeatNext ==
    \/ CallIdentifyPratika
    \/ CallSearch
    \/ Tick
    \/ CallAgain

SpecRepeat == RepeatInit /\ [][RepeatNext]_vars

(***************************************************************************)
(* The two generators of variants, applied to a term; a quotation form     *)
(* that generatePratikaVariations made of the term is given back to it.    *)
(***************************************************************************)
\* the endings of the terms: the keys and the base endings of both maps
TermEndings ==
    {itiReverse[i][1] : i \in 1..Len(itiReverse)}
    \cup {itiForward[i][1] : i \in 1..Len(itiForward)}
    \cup {Flatten([i \in 1..Len(itiReverse) |-> itiReverse[i][2]])[j] :
             j \in 1..Len(Flatten([i \in 1..Len(itiReverse) |-> itiReverse[i][2]]))}
    \cup {<<"t", "-i">>, <<"H">>}

\* the terms: a consonant and the vowel sign U+0947, up to the length of a
\* stem, before one of the endings
VariationTerms ==
    {pre \o tail : pre \in SeqsUpTo({"k", "-e"}, MaxStemLen), tail \in TermEndings}

VariationsInit ==
    /\ args \in {<<JsString(t)>> : t \in VariationTerms}
    /\ config = SanskritSearchConfig(DefaultOptions)
    /\ now = 0
    /\ pc = "idle"
    /\ op = "none"
    /\ result = NoResult
    /\ previous = NoResult
    /\ NoScan

\* the list a generator returns
Variations(list) == [kind |-> "value", variations |-> list]

\* a call of generatePratikaVariations(searchTerm)
CallGeneratePratikaVariations ==
    /\ pc = "idle"
    /\ Called("generatePratikaVariations",
              Variations(generatePratikaVariations(args[1].s)))

\* a call of generateVariations(term)
CallGenerateVariations ==
    /\ pc = "idle"
    /\ Called("generateVariations", Variations(generateVariations(args[1].s)))

\* the variations of the forward patterns come after those of the reverse
\* patterns
ForwardIndices(searchTerm, variations) ==
    (Len(ReverseVariations(searchTerm, LongestFirst(itiReverse))) + 1)..Len(variations)

\* generatePratikaVariations is called on a quotation form it has made of
\* the term: variant is the argument of this second call
QuoteBack ==
    /\ pc = "done"
    /\ op = "generatePratikaVariations"
    /\ previous = NoResult
    /\ \E i \in ForwardIndices(args[1].s, result.variations) :
          /\ variant' = result.variations[i].text
          /\ result' = Variations(generatePratikaVariations(result.variations[i].text))
    /\ previous' = result
    /\ UNCHANGED <<config, now, args, pc, op, pos, matches>>

VariationsNext ==
    \/ CallGeneratePratikaVariations
    \/ CallGenerateVariations
    \/ QuoteBack

SpecVariations == VariationsInit /\ [][VariationsNext]_vars

(***************************************************************************)
(* searchMultiple and searchWithIndex called one after the other.          *)
(***************************************************************************)
\* the documents that are searched
MaxDocuments == 2

\* the texts of the documents: the word U+0915, the word with a vowel sign,
\* another word, two words, and the word with an anusvara
DocumentTexts ==
    {<<"k">>, <<"k", "-o">>, <<"m">>, <<"k", " ", "m">>, <<"m", "k">>, <<"k", "M">>}

\* the terms: a word, another word, two words, a word with an anusvara
DocumentTerms == {<<"k">>, <<"m">>, <<"k", " ", "m">>, <<"k", "M">>}

\* lists of documents; the id of a document is its place in the list
DocumentLists ==
    {[i \in 1..Len(texts) |->
        [id |-> i, text |-> JsString(texts[i]), metadata |-> [place |-> i]]] :
     texts \in SeqsUpTo(DocumentTexts, MaxDocuments)}

IndexInit ==
    /\ args \in {JsString(t) : t \in DocumentTerms} \X DocumentLists
    /\ config = SanskritSearchConfig(DefaultOptions)
    /\ now = 0
    /\ pc = "idle"
    /\ op = "none"
    /\ result = NoResult
    /\ previous = NoResult
    /\ NoScan

\* a call of searchMultiple(searchTerm, documents)
CallSearchMultiple ==
    /\ pc = "idle"
    /\ Called("searchMultiple", searchMultiple(config, now, args[1], args[2]))

\* a call of searchWithIndex(searchTerm, createIndex(documents), documents)
\* after the call of searchMultiple
CallSearchWithIndex ==
    /\ pc = "done"
    /\ op = "searchMultiple"
    /\ previous' = result
    /\ op' = "searchWithIndex"
    /\ result' = searchWithIndex(config, now, args[1], createIndex(args[2]), args[2])
    /\ pc' = Outcome(result')
    /\ UNCHANGED <<config, now, args, variant, pos, matches>>

IndexNext ==
    \/ CallSearchMultiple
    \/ CallSearchWithIndex

SpecIndex == IndexInit /\ [][IndexNext]_vars

(***************************************************************************)
(* identifyPratika called on any text: the text is drawn at the call.      *)
(***************************************************************************)
CascadeInit ==
    /\ args = <<>>
    /\ config = SanskritSearchConfig(DefaultOptions)
    /\ now = 0
    /\ pc = "idle"
    /\ op = "none"
    /\ result = NoResult
    /\ previous = NoResult
    /\ NoScan

\* a call of identifyPratika(text) with any of the texts
CallIdentifyPratikaOfAny ==
    /\ pc = "idle"
    /\ \E t \in PratikaTexts :
          /\ args' = <<JsString(t)>>
          /\ result' = identifyPratika(JsString(t))
    /\ op' = "identifyPratika"
    /\ pc' = "done"
    /\ UNCHANGED <<config, now, variant, pos, matches, previous>>

SpecCascade == CascadeInit /\ [][CallIdentifyPratikaOfAny]_vars

(***************************************************************************)
(* Properties of identifyPratika.                                          *)
(***************************************************************************)
\* identifyPratika has returned an object for a string
Identified ==
    /\ pc = "done"
    /\ op = "identifyPratika"
    /\ result.kind = "value"

\* a stem of at least two characters that is one word in normal form,
\* begins with a consonant letter and ends in a bare consonant letter
ValidStem(s) ==
    /\ Len(s) >= 2
    /\ s[1] \in OtiConsonants
    /\ s[Len(s)] \in OtiConsonants
    /\ \A i \in 1..Len(s) : s[i] \notin WhiteSpace
    /\ NFC(s) = s

\* C1: for every stem s of at least two characters that ends in a bare
\* consonant letter, whatever characters occur inside it,
\* identifyPratika(s + iti) returns isPratika = true with stem = s
StemPlusItiIsPratika ==
    (/\ pc = "done"
     /\ op = "identifyPratika"
     /\ args[1].t = "string"
     /\ EndsWith(args[1].s, Iti)
     /\ ValidStem(DropLast(args[1].s, 3)))
    => (/\ result.kind = "value"
        /\ result.isPratika
        /\ result.stem = DropLast(args[1].s, 3))

\* C2: the result of identifyPratika either has no stem (isPratika = false)
\* or has a stem of at least two characters, in the fused case and in the
\* space-separated case alike
StemLengthInvariant ==
    (Identified /\ result.isPratika) => Len(result.stem) >= 2

\* the rules of the cascade: the suffix of each branch with the rule ids
\* and the confidences the branch can report
RuleTable ==
    { <<<<"y", "+", "v", "-i", "t", "-i">>, {"yaviti"}, {85}>>,
      <<<<"-aa", "v", "-i", "t", "-i">>, {"aaviti"}, {85}>>,
      <<<<"s", "+", "y", "-e", "t", "-i">>, {"syeti"}, {90}>>,
      <<<<"-aa", "y", "-e", "t", "-i">>, {"aayeti"}, {80}>>,
      <<<<"bh", "-i", "r", "-i", "t", "-i">>, {"bhiriti-visarga", "bhiriti"}, {90}>>,
      <<<<"m", "-i", "t", "-i">>, {"miti"}, {85}>>,
      <<<<"d", "-i", "t", "-i">>, {"diti"}, {85}>>,
      <<<<"r", "-i", "t", "-i">>, {"riti-rvowel", "riti-visarga"}, {80, 88}>>,
      <<<<"y", "-e", "bh", "+", "y", "r", "-i", "t", "-i">>, {"yebhyariti"}, {95}>>,
      <<<<"-e", "bh", "+", "y", "r", "-i", "t", "-i">>, {"ebhyariti"}, {95}>>,
      <<<<"bh", "+", "y", "-aa", "m", "-i", "t", "-i">>, {"bhyaamiti"}, {95}>>,
      <<<<"-aa", "n", "-aa", "m", "-i", "t", "-i">>, {"aanaamiti"}, {95}>>,
      <<<<"nn", "-aa", "m", "-i", "t", "-i">>, {"naamiti"}, {95}>>,
      <<<<"y", "-aa", "m", "-i", "t", "-i">>, {"yaamiti"}, {95}>>,
      <<<<"y", "-aa", "r", "-i", "t", "-i">>, {"yaar{093F}{0924}{093F}"}, {90}>>,
      <<<<"-e", "nn", "-e", "t", "-i">>, {"eneti"}, {90}>>,
      <<<<"-o", "r", "-i", "t", "-i">>, {"oriti"}, {90}>>,
      <<<<"ss", "+", "v", "-i", "t", "-i">>, {"shviti"}, {85}>>,
      <<<<"s", "+", "v", "-i", "t", "-i">>, {"sviti"}, {85}>>,
      <<<<"-ai", "r", "-i", "t", "-i">>, {"airiti"}, {85}>>,
      <<<<"-aa", "n", "-i", "t", "-i">>, {"aaniti"}, {80}>>,
      <<<<"-aa", "n", "-ii", "t", "-i">>, {"aaneeiti"}, {80}>>,
      <<<<"-o", "t", "-i">>, {"oti-visarga", "oti"}, {70, 65}>>,
      <<<<"-e", "t", "-i">>, {"eti"}, {65}>>,
      <<<<"-ii", "t", "-i">>, {"eeti"}, {70}>>,
      <<<<"-uu", "t", "-i">>, {"ooti"}, {70}>>,
      <<<<"-ai", "t", "-i">>, {"aiti"}, {70}>>,
      <<<<"-au", "t", "-i">>, {"auti"}, {70}>>,
      <<<<"l", "-i", "t", "-i">>, {"liti"}, {80}>>,
      <<<<"v", "-i", "t", "-i">>, {"viti"}, {75}>>,
      <<<<"y", "-e", "t", "-i">>, {"yeti"}, {75}>> }

\* the rules whose suffix the text ends with
MatchingRules(t) == {r \in RuleTable : EndsWith(t, r[1])}

\* the rule with the longest suffix among them
LongestRule(rules) == CHOOSE r \in rules : \A q \in rules : Len(q[1]) <= Len(r[1])

\* identifyPratika has gone through the fused case for a text that some
\* rule of the table matches
FusedWithRule ==
    /\ Identified
    /\ result.isPratika
    /\ result.pattern # "space-iti-inherent-a"
    /\ MatchingRules(result.originalText) # {}

\* C3: in the fused case the rule id and the confidence reported are those
\* of the longest rule suffix of the table that the trimmed text ends with
LongestRuleApplies ==
    FusedWithRule
    => (/\ result.pattern \in LongestRule(MatchingRules(result.originalText))[2]
        /\ result.confidence \in LongestRule(MatchingRules(result.originalText))[3])

(***************************************************************************)
(* Properties of search and searchWithPratikaGrahana.                      *)
(***************************************************************************)
\* an argument of the call is no string, or is the empty string
InvalidInput ==
    \E i \in 1..Len(args) : args[i].t # "string" \/ args[i].s = <<>>

\* C4: for every invalid or empty input (null, undefined, a value that is
\* no string, an empty term or text) search and searchWithPratikaGrahana
\* return {matches: [], count: 0} and identifyPratika returns an object with
\* isPratika = false; no call raises an exception or returns null
TotalErrorHandling ==
    (pc # "idle" /\ InvalidInput)
    => IF op = "identifyPratika"
       THEN result.kind = "value" /\ ~result.isPratika
       ELSE result = EmptyResult

\* C5: the scan loop of directSearch strictly advances its position on
\* every iteration, for the term and for every variant text it is given, so
\* that every call with a non-empty term and text returns
ScanAdvances == [][(pc = "scan" /\ pc' = "scan") => pos' > pos]_vars

\* search or searchWithPratikaGrahana has returned a result with matches
Searched(method) ==
    /\ pc = "done"
    /\ op = method
    /\ result.kind = "value"

\* C6: the number of matches search returns is at most config.maxResults,
\* in precision mode as in fuzzy mode, and count is the length of matches
CapHolds ==
    Searched("search")
    => (/\ Len(result.matches) <= config.maxResults
        /\ result.count = Len(result.matches))

\* C7: the matches search and searchWithPratikaGrahana return are in
\* non-decreasing order of position
OrderedByPosition ==
    (Searched("search") \/ Searched("searchWithPratikaGrahana"))
    => \A i \in 1..Len(result.matches) : \A j \in i..Len(result.matches) :
           result.matches[i].position <= result.matches[j].position

\* search has returned a sandhi match placed before a direct match, which
\* the merge had appended after it
SandhiSortedBeforeDirect ==
    /\ Searched("search")
    /\ \E i \in 1..Len(result.matches) : \E j \in i..Len(result.matches) :
           /\ result.matches[i].type = "sandhi"
           /\ result.matches[j].type = "direct"
           /\ result.matches[i].position < result.matches[j].position

\* C8: the matches search (in either mode) and searchWithPratikaGrahana
\* return hold no two entries with the same position and the same length
NoDuplicateMatches ==
    (Searched("search") \/ Searched("searchWithPratikaGrahana"))
    => \A i \in 1..Len(result.matches) : \A j \in 1..Len(result.matches) :
           (/\ result.matches[i].position = result.matches[j].position
            /\ result.matches[i].length = result.matches[j].length)
           => i = j

\* the fuzzy mode has found more direct and sandhi matches than search
\* returns without cutting: the merge has dropped a duplicate
DuplicateDropped ==
    /\ Searched("search")
    /\ ArgumentCheck(args[1], args[2]) = "ok"
    /\ ~hasEndingMarker(NFC(args[1].s))
    /\ config.enableSandhi
    /\ Len(result.matches) >= 2
    /\ Len(result.matches) < config.maxResults
    /\ Len(directSearch(config, NFC(args[1].s), NFC(args[2].s)).matches)
         + Len(sandhiAwareSearch(config, NFC(args[1].s), NFC(args[2].s)).matches)
       > Len(result.matches)

\* the explicit phonological markers: anusvara and candrabindu, the
\* visarga and its variants, the dependent vowel signs and the virama
ExplicitMarkers ==
    {"M", "~", "H", "Hk", "Hp", "+",
     "-aa", "-i", "-ii", "-u", "-uu", "-r", "-rr", "-l", "-ll", "-e", "-ai", "-o", "-au"}

\* C9: search uses precision mode if and only if the last character of the
\* term is an explicit marker: then every match is 'exact', and for every
\* other term, one ending in a bare consonant such as ma included, every
\* match is 'direct' or 'sandhi'
ModeByEndingMarker ==
    (Searched("search") /\ ArgumentCheck(args[1], args[2]) = "ok")
    => \A i \in 1..Len(result.matches) :
           IF NFC(args[1].s)[Len(NFC(args[1].s))] \in ExplicitMarkers
           THEN result.matches[i].type = "exact"
           ELSE result.matches[i].type \in {"direct", "sandhi"}

\* the span of length n at position p of text lies between two boundaries:
\* the start of the text or a boundary character before it, the end of the
\* text or a boundary character after it
Delimited(text, p, n) ==
    /\ p = 0 \/ text[p] \in BoundaryChars
    /\ p + n = Len(text) \/ text[p + n + 1] \in BoundaryChars

\* C10: every match of the precision mode is word-boundary delimited; an
\* occurrence of the term inside a longer word is never returned
ExactMatchesDelimited ==
    (Searched("search") /\ ArgumentCheck(args[1], args[2]) = "ok")
    => \A i \in 1..Len(result.matches) :
           result.matches[i].type = "exact"
           => Delimited(NFC(args[2].s), result.matches[i].position,
                        result.matches[i].length)

\* the number of phonological marks that follow position p of the text
\* without a gap
MarksFollowing(text, p) ==
    CHOOSE k \in 0..(Len(text) - p) :
        /\ \A i \in 1..k : text[p + i] \in sanskritEndings
        /\ p + k = Len(text) \/ text[p + k + 1] \notin sanskritEndings

\* the length the match of a searched string has at position p: the
\* string's own when it ends in a mark, else extended over the marks that
\* follow the occurrence
ExtendedLength(str, text, p) ==
    IF str # <<>> /\ str[Len(str)] \in sanskritEndings THEN Len(str)
    ELSE Len(str) + MarksFollowing(text, p + Len(str))

\* the match m is an occurrence of the searched string str in the text,
\* of the extended length
OccurrenceOf(m, str, text) ==
    /\ OccursAt(text, str, m.position)
    /\ m.length = ExtendedLength(str, text, m.position)
    /\ m.matchedText = Substr(text, m.position, m.length)

\* the match m of type sandhi is an occurrence of a variation of the term
\* that carries the rule of m
SandhiOccurrence(m, term, text) ==
    \E i \in 1..Len(generateVariations(term)) :
        /\ generateVariations(term)[i].rule = m.sandhiRule
        /\ OccurrenceOf(m, generateVariations(term)[i].text, text)

\* C11: in fuzzy mode every direct match starts at an occurrence of the
\* term and is as long as the term plus the maximal run of phonological
\* marks that follow the occurrence; the match of a searched string that
\* itself ends in a mark (a sandhi variation) has the length of the string
DirectMatchesExtendOverMarks ==
    Searched("search")
    => \A i \in 1..Len(result.matches) :
          /\ result.matches[i].type = "direct"
             => OccurrenceOf(result.matches[i], NFC(args[1].s), NFC(args[2].s))
          /\ result.matches[i].type = "sandhi"
             => SandhiOccurrence(result.matches[i], NFC(args[1].s), NFC(args[2].s))

\* a direct match longer than its term, next to the match of a variation
\* that ends in a mark and is followed by one more mark
ExtendedAndUnextended ==
    /\ Searched("search")
    /\ \E i \in 1..Len(result.matches) :
          /\ result.matches[i].type = "direct"
          /\ result.matches[i].length > Len(args[1].s)
    /\ \E i \in 1..Len(result.matches) :
          /\ result.matches[i].type = "sandhi"
          /\ result.matches[i].position + result.matches[i].length < Len(args[2].s)
          /\ args[2].s[result.matches[i].position + result.matches[i].length + 1]
                \in sanskritEndings

\* the term ends in an explicit nasal mark: the anusvara, or m with virama
EndsInNasal(term) ==
    \/ EndsWith(term, <<"M">>)
    \/ EndsWith(term, <<"m", "+">>)

\* the term without its nasal mark
NasalStem(term) ==
    IF EndsWith(term, <<"M">>) THEN DropLast(term, 1) ELSE DropLast(term, 2)

\* the match m is one of the phonetic variants of the term, standing in the
\* text at the position of m
VariantOccurrence(m, term, text) ==
    /\ \E i \in 1..Len(generatePhoneticVariants(term)) :
          generatePhoneticVariants(term)[i] = m.matchedText
    /\ OccursAt(text, m.matchedText, m.position)
    /\ m.length = Len(m.matchedText)

\* C12: for a term that ends in an explicit nasal mark, every match search
\* returns is the term or one of its phonetic variants, standing in the text
\* at the position of the match; so no match lies at an occurrence of the
\* stem that ends in another vowel mark
PrecisionExcludesOtherEndings ==
    (Searched("search") /\ result.matches # <<>> /\ EndsInNasal(NFC(args[1].s)))
    => \A i \in 1..Len(result.matches) :
          VariantOccurrence(result.matches[i], NFC(args[1].s), NFC(args[2].s))

\* the text holds the stem of the term with another vowel sign, where no
\* match lies, and a variant of the term, where a match lies
OtherEndingPassedOver ==
    /\ Searched("search")
    /\ args[1].t = "string" /\ args[2].t = "string"
    /\ EndsInNasal(args[1].s)
    /\ NasalStem(args[1].s) # <<>>
    /\ \E p \in 0..(Len(args[2].s) - 1) :
          /\ OccursAt(args[2].s, NasalStem(args[1].s) \o <<"-o">>, p)
          /\ \A i \in 1..Len(result.matches) : result.matches[i].position # p
    /\ \E i \in 1..Len(result.matches) :
          result.matches[i].matchedText # args[1].s

\* a call has been made twice with the same arguments
CalledTwice == previous # NoResult

\* a result without its timestamp
WithoutTimestamp(r) == [f \in DOMAIN r \ {"timestamp"} |-> r[f]]

EndsInBaseEnding(x) ==
    \E i \in 1..Len(itiReverse) :
        \E j \in 1..Len(itiReverse[i][2]) : EndsWith(x, itiReverse[i][2][j])

\* a quotation form of the term has been given back
QuotedBack == op = "generatePratikaVariations" /\ previous # NoResult

\* C14: for every pair (itiSuffix, baseEnding) of the reverse map and every
\* word x that ends in baseEnding, the quotation form got by replacing the
\* ending of x that the forward map matches by its iti suffix, passed
\* through generatePratikaVariations, yields a list that contains x
RoundTripContainsWord ==
    (QuotedBack /\ EndsInBaseEnding(args[1].s))
    => \E i \in 1..Len(result.variations) :
          result.variations[i].text = args[1].s

\* the documents of a result of searchMultiple or searchWithIndex, each
\* with its matches
DocumentsFound(r) ==
    {<<r.results[k].id, r.results[k].matches>> : k \in 1..Len(r.results)}

\* C15: searchWithIndex(term, createIndex(docs), docs) returns a result for
\* exactly the documents searchMultiple(term, docs) returns one for, with
\* the same matches; a document that holds the term only inside a longer
\* word is reported too
IndexLosesNoMatch ==
    (op = "searchWithIndex" /\ pc = "done")
    => DocumentsFound(result) = DocumentsFound(previous)

\* the types a match can have
MatchTypes == {"exact", "direct", "sandhi", "pratika-grahana"}

\* the match lies inside the text and names the characters it covers
ValidMatch(m, text) ==
    /\ m.type \in MatchTypes
    /\ 0 <= m.position
    /\ m.position + m.length <= Len(text)
    /\ m.matchedText = SubSeq(text, m.position + 1, m.position + m.length)

\* C16: every match that search or searchWithPratikaGrahana returns has
\* one of the four types, lies inside the text (0 <= position and
\* position + length <= the length of the text) and has as matchedText the
\* part of the text from position on of that length
MatchesAreValid ==
    (Searched("search") \/ Searched("searchWithPratikaGrahana"))
    => \A i \in 1..Len(result.matches) :
          ValidMatch(result.matches[i], NFC(args[2].s))

\* a quotation form found by its stem, next to a direct match that runs
\* over a mark
QuotationAndDirectFound ==
    /\ Searched("searchWithPratikaGrahana")
    /\ \E i \in 1..Len(result.matches) :
          /\ result.matches[i].type = "pratika-grahana"
          /\ result.matches[i].length > 0
    /\ \E i \in 1..Len(result.matches) :
          /\ result.matches[i].type = "direct"
          /\ result.matches[i].length > Len(args[1].s)

\* the text is one word that begins with a consonant letter, a space and
\* iti
WordSpaceIti(t) ==
    /\ Len(t) >= 5
    /\ t[1] \in OtiConsonants
    /\ SubSeq(t, Len(t) - 3, Len(t)) = <<" ">> \o Iti
    /\ \A i \in 1..(Len(t) - 4) : t[i] \notin WhiteSpace

\* the word of such a text
WordOf(t) == SubSeq(t, 1, Len(t) - 4)

\* C17: for a text of the form <word> iti with a space between,
\* identifyPratika returns isPratika = true with confidence 75, the rule
\* space-iti-inherent-a and the word as stem exactly when the word ends in
\* a bare consonant letter; when the word ends in anything else (a vowel
\* sign, anusvara, candrabindu, visarga or virama) it returns
\* isPratika = false with confidence 0
SpaceSeparatedByLastLetter ==
    (Identified /\ args[1].t = "string" /\ WordSpaceIti(args[1].s))
    => IF WordOf(args[1].s)[Len(WordOf(args[1].s))] \in OtiConsonants
       THEN /\ result.isPratika
            /\ result.confidence = 75
            /\ result.pattern = "space-iti-inherent-a"
            /\ result.stem = WordOf(args[1].s)
       ELSE /\ ~result.isPratika
            /\ result.confidence = 0

\* the text ends in U+0947 U+0924 U+093F and in none of the three longer
\* suffixes that end so
GenericEti(t) ==
    /\ Len(t) >= 5
    /\ EndsWith(t, <<"-e", "t", "-i">>)
    /\ ~EndsWith(t, <<"s", "+", "y", "-e", "t", "-i">>)
    /\ ~EndsWith(t, <<"-aa", "y", "-e", "t", "-i">>)
    /\ ~EndsWith(t, <<"-e", "nn", "-e", "t", "-i">>)

\* the result of the rule eti on the text t
EtiResult(t) ==
    /\ result.isPratika
    /\ result.stem = DropLast(t, 3)
    /\ result.pattern = "eti"
    /\ result.confidence = 65

\* C18: for every text of at least 5 characters that ends in U+0947 U+0924
\* U+093F and in none of the more specific suffixes, identifyPratika
\* returns isPratika = true, the text without its last 3 characters as
\* stem, the rule eti and confidence 65
GenericEtiRule ==
    (Identified /\ args[1].t = "string" /\ GenericEti(args[1].s))
    => EtiResult(args[1].s)

\* C18 as it holds: the same of the text as identifyPratika trims and
\* normalises it
GenericEtiRuleOfTrimmed ==
    (Identified /\ args[1].t = "string" /\ GenericEti(NFC(Trim(args[1].s))))
    => EtiResult(NFC(Trim(args[1].s)))

\* the rule has applied to a text that holds white space before the word
EtiAfterWhiteSpace ==
    /\ Identified
    /\ args[1].t = "string"
    /\ GenericEti(Trim(args[1].s))
    /\ Trim(args[1].s) # args[1].s
    /\ result.pattern = "eti"

\* generatePratikaVariations has returned; the term it was called with
PratikaVariationsMade == op = "generatePratikaVariations" /\ pc = "done"

TermGiven == IF previous = NoResult THEN args[1].s ELSE variant

\* the places (i, j) of the reverse map: a suffix the term ends with and
\* one of its base endings
MatchedPlaces(term) ==
    UNION {{<<i, j>> : j \in 1..Len(itiReverse[i][2])} :
           i \in {n \in 1..Len(itiReverse) : EndsWith(term, itiReverse[n][1])}}

\* the variations that stand for the place (i, j)
VariationsOfPlace(term, variations, i, j) ==
    {k \in 1..Len(variations) :
        /\ variations[k].pattern[1] = itiReverse[i][1]
        /\ variations[k].pattern[2] =
              (IF itiReverse[i][2][j] = <<>> THEN StemWord ELSE itiReverse[i][2][j])
        /\ variations[k].text =
              DropLast(term, Len(itiReverse[i][1])) \o itiReverse[i][2][j]}

\* the variations of the forward patterns: their pattern leads to an iti
\* form
ForwardMade(variations) ==
    {k \in 1..Len(variations) : EndsWith(variations[k].pattern[2], <<"t", "-i">>)}

\* C19: generatePratikaVariations emits one variant for each base ending of
\* every suffix of the reverse map that the term ends with, not only of the
\* first suffix, and no forward variant at all when the term ends in
\* U+0924 U+093F
ExpansionCoversEverySuffix ==
    PratikaVariationsMade
    => /\ \A place \in MatchedPlaces(TermGiven) :
             Cardinality(VariationsOfPlace(TermGiven, result.variations,
                                           place[1], place[2])) = 1
       /\ Len(result.variations)
             = Cardinality(MatchedPlaces(TermGiven))
               + Cardinality(ForwardMade(result.variations))
       /\ EndsWith(TermGiven, <<"t", "-i">>) => ForwardMade(result.variations) = {}

\* a term that ends in two suffixes of the reverse map, of which the longer
\* is U+092F U+0947 U+0924 U+093F, has the variants of both
TwoSuffixesExpanded ==
    /\ PratikaVariationsMade
    /\ EndsWith(TermGiven, <<"y", "-e", "t", "-i">>)
    /\ \E k \in 1..Len(result.variations) :
          result.variations[k].pattern[1] = <<"y", "-e", "t", "-i">>
    /\ \E k \in 1..Len(result.variations) :
          result.variations[k].pattern[1] = <<"-e", "t", "-i">>

\* generateVariations has returned
VariationsMade == op = "generateVariations" /\ pc = "done"

\* C20: generateVariations returns a list whose first element is the
\* identity variant, the term itself with the rule original, and in which
\* no two elements have the same text
IdentityFirstAndTextsUnique ==
    VariationsMade
    => /\ Len(result.variations) >= 1
       /\ result.variations[1].text = args[1].s
       /\ result.variations[1].rule = <<"original">>
       /\ \A i, j \in 1..Len(result.variations) :
             result.variations[i].text = result.variations[j].text => i = j

\* the rules have made further variants of the term, one of them more than
\* once
SeveralVariationsMade ==
    /\ VariationsMade
    /\ Len(result.variations) >= 2
    /\ Len(trySplitSandhi(args[1].s) \o tryEndingVariations(args[1].s)
             \o tryVowelCombinations(args[1].s)) >= Len(result.variations)

\* two matches with the same position, length and type
SameMatch(a, b) ==
    /\ a.position = b.position
    /\ a.length = b.length
    /\ a.type = b.type

\* the matches of the cross-reference are those of the regular search and,
\* besides them, quotation matches at other places only
UnionOf(regular, merged) ==
    /\ \A i \in 1..Len(regular) : \E k \in 1..Len(merged) : SameMatch(regular[i], merged[k])
    /\ \A k \in 1..Len(merged) :
          \/ \E i \in 1..Len(regular) : SameMatch(regular[i], merged[k])
          \/ /\ merged[k].type = "pratika-grahana"
             /\ \A i \in 1..Len(regular) :
                   \/ regular[i].position # merged[k].position
                   \/ regular[i].length # merged[k].length

\* the matches before the cut of searchWithPratikaGrahana are no more than
\* maxResults
NothingCut(regular, quoted) ==
    /\ regular.kind = "value"
    /\ ~quoted.hung
    /\ Len(MergeNew(regular.matches, quoted.matches)) <= config.maxResults

NegativeShape(r) ==
    /\ r.confidence = 0
    /\ r.stem = Null
    /\ r.pattern = "null"
    /\ r.itiEnding = Null

PositiveShape(r) ==
    /\ r.stem \notin {Null, <<>>}
    /\ r.pattern \notin {"null", ""}
    /\ r.confidence \in 60..95

ResultShape ==
    Identified =>
        IF result.isPratika THEN PositiveShape(result) ELSE NegativeShape(result)

\* a quotation of the lowest confidence has been identified
LeastConfidentIdentified ==
    /\ Identified
    /\ result.isPratika
    /\ result.confidence = 60

\* ---------------------------------------------------------------------
\* C23  The look-back of the instrumental plural.
\* ---------------------------------------------------------------------
Bhiriti == <<"bh", "-i", "r", "-i", "t", "-i">>

EndsInRVowel(s) == EndsWith(s, <<"-r">>) \/ EndsWith(s, <<"-rr">>)

\* what the claim says of the text t, whose prefix stands before the suffix
BhiritiResultOf(prefix) ==
    /\ result.isPratika
    /\ result.confidence = 90
    /\ IF prefix # <<>> /\ ~EndsInRVowel(prefix)
       THEN /\ result.stem = prefix \o <<"bh", "-i", "H">>
            /\ result.pattern = "bhiriti-visarga"
       ELSE /\ result.stem = prefix \o <<"bh", "-i", "r">>
            /\ result.pattern = "bhiriti"

BhiritiResult(t) == BhiritiResultOf(DropLast(t, Len(Bhiriti)))

\* C23: for every text that ends in U+092D U+093F U+0930 U+093F U+0924
\* U+093F identifyPratika strips the 6 characters and returns confidence
\* 90; the stem is the prefix and bhi with visarga under the rule
\* bhiriti-visarga when the prefix is not empty and does not end in U+0943
\* or U+0944, the prefix and bhir under the rule bhiriti otherwise
BhiritiLookback ==
    (Identified /\ args[1].t = "string" /\ EndsWith(args[1].s, Bhiriti))
    => BhiritiResult(args[1].s)

\* C23 as it holds: the same of the text as identifyPratika trims and
\* normalises it
BhiritiLookbackOfTrimmed ==
    (Identified /\ args[1].t = "string" /\ EndsWith(NFC(Trim(args[1].s)), Bhiriti))
    => BhiritiResult(NFC(Trim(args[1].s)))

\* the suffix has been stripped after white space alone: the prefix of the
\* text is not empty, that of the trimmed text is
BhiritiAfterWhiteSpace ==
    /\ Identified
    /\ args[1].t = "string"
    /\ EndsWith(args[1].s, Bhiriti)
    /\ args[1].s # Bhiriti
    /\ Trim(args[1].s) = Bhiriti
    /\ result.pattern = "bhiriti"

\* ---------------------------------------------------------------------
\* C24  The two readings of the suffix riti.
\* ---------------------------------------------------------------------
Riti == <<"r", "-i", "t", "-i">>

\* the branches that stand before the branch of riti in the cascade
EarlierThanRiti ==
    {<<"y", "+", "v", "-i", "t", "-i">>, <<"-aa", "v", "-i", "t", "-i">>,
     <<"s", "+", "y", "-e", "t", "-i">>, <<"-aa", "y", "-e", "t", "-i">>,
     Bhiriti, <<"m", "-i", "t", "-i">>, <<"d", "-i", "t", "-i">>}

RitiText(t) ==
    /\ EndsWith(t, Riti)
    /\ \A suffix \in EarlierThanRiti : ~EndsWith(t, suffix)

\* what the claim says of the text whose prefix stands before the suffix
RitiResultOf(prefix) ==
    IF EndsInRVowel(prefix)
    THEN /\ result.pattern = "riti-rvowel"
         /\ result.confidence = 80
         /\ result.stem = prefix
    ELSE /\ result.pattern = "riti-visarga"
         /\ result.confidence = 88
         /\ result.stem = prefix \o <<"H">>

RitiResult(t) == RitiResultOf(DropLast(t, Len(Riti)))

\* the stem that the claim names is long enough for identifyPratika
RitiStemKept(prefix) ==
    Len(prefix) + (IF EndsInRVowel(prefix) THEN 0 ELSE 1) >= 2

\* C24: for every text that ends in U+0930 U+093F U+0924 U+093F and matches
\* no earlier rule the result is the rule riti-rvowel with confidence 80
\* and the text without its last 4 characters as stem when U+0943 or U+0944
\* stands before the suffix, the rule riti-visarga with confidence 88 and
\* that stem followed by visarga otherwise
RitiDisambiguation ==
    (Identified /\ args[1].t = "string" /\ RitiText(args[1].s))
    => RitiResult(args[1].s)

\* C24 as it holds: the same of the text as identifyPratika trims and
\* normalises it, when the stem has at least 2 characters
RitiDisambiguationOfStems ==
    (/\ Identified
     /\ args[1].t = "string"
     /\ RitiText(NFC(Trim(args[1].s)))
     /\ RitiStemKept(DropLast(NFC(Trim(args[1].s)), Len(Riti))))
    => RitiResult(NFC(Trim(args[1].s)))

\* the r vowel has been found before the suffix
RVowelBeforeRiti ==
    /\ Identified
    /\ args[1].t = "string"
    /\ RitiText(args[1].s)
    /\ result.isPratika
    /\ result.pattern = "riti-rvowel"

\* ---------------------------------------------------------------------
\* C25  itiEnding and the characters that the rule has discarded.
\* ---------------------------------------------------------------------
\* the number of characters that the branch of each pattern slices off
\* the end of the trimmed text
SlicedOff ==
    { <<{"oti-visarga", "oti", "eti", "eeti", "ooti", "aiti", "auti", "generic"}, 3>>,
      <<{"syeti", "miti", "diti", "riti-rvowel", "riti-visarga", "eneti", "liti",
         "viti", "yeti"}, 4>>,
      <<{"aaviti", "aayeti", "yaar{093F}{0924}{093F}", "oriti", "shviti", "sviti",
         "airiti", "aaniti"}, 5>>,
      <<{"yaviti", "bhiriti-visarga", "bhiriti", "naamiti", "yaamiti", "aaneeiti"}, 6>>,
      <<{"bhyaamiti", "aanaamiti"}, 7>>,
      <<{"yebhyariti", "ebhyariti"}, 8>> }

DiscardedBy(pattern) == (CHOOSE e \in SlicedOff : pattern \in e[1])[2]

\* identifyPratika has found a quotation in the fused case
FusedIdentified ==
    /\ Identified
    /\ result.isPratika
    /\ result.pattern # "space-iti-inherent-a"

\* C25: whenever identifyPratika returns isPratika = true in the fused case
\* itiEnding is the trailing characters of originalText that the matched
\* rule discarded, so that the retained prefix of originalText followed by
\* itiEnding is originalText
ItiEndingIsSuffixConsumed ==
    FusedIdentified
    => result.itiEnding =
         SliceFrom(result.originalText,
                   Len(result.originalText) - DiscardedBy(result.pattern))

\* ---------------------------------------------------------------------
\* C26  The round trip of the forward map.
\* ---------------------------------------------------------------------
\* the words x that end in the key of the entry and whose ending, replaced
\* by the iti form of the entry, gives the term
WordsQuotedAs(term, entry) ==
    IF EndsWith(term, entry[2])
    THEN {DropLast(term, Len(entry[2])) \o entry[1]}
    ELSE {}

VariationTexts(variations) == {variations[k].text : k \in 1..Len(variations)}

\* C26: for every key e of the forward map and every word x that ends in
\* e, the word got by replacing e by forward[e] is mapped back by
\* generatePratikaVariations to a list that contains x
ForwardRoundTrip ==
    PratikaVariationsMade
    => \A i \in 1..Len(itiForward) :
          WordsQuotedAs(TermGiven, itiForward[i]) \subseteq VariationTexts(result.variations)

\* ---------------------------------------------------------------------
\* C27  The rules of the cascade that a text can reach.
\* ---------------------------------------------------------------------
\* the patterns that the branches of the cascade assign
CascadeRuleIds ==
    UNION {e[1] : e \in SlicedOff}

\* the patterns of the results that identifyPratika returns for the texts
PatternsReturned(texts) ==
    {r.pattern : r \in {q \in {identifyPratika(JsString(t)) : t \in texts} :
                            q.kind = "value" /\ q.isPratika}}

\* C27: for each rule that identifyPratika can assign in the cascade of the
\* fused case there is a text for which identifyPratika returns that rule
EveryRuleReachable ==
    pc = "idle" => CascadeRuleIds \subseteq PatternsReturned(PratikaTexts)

\* ---------------------------------------------------------------------
\* C28  The characters before the suffix of the matched rule.
\* ---------------------------------------------------------------------
IsPrefix(p, s) == Len(p) <= Len(s) /\ SubSeq(s, 1, Len(p)) = p

\* the suffix of the rule that has assigned the pattern; the generic rule
\* stands for the three characters of iti
SuffixOfRule(pattern) ==
    IF pattern = "generic" THEN Iti
    ELSE (CHOOSE r \in RuleTable : pattern \in r[2])[1]

\* C28: whenever identifyPratika returns isPratika = true in the fused
\* case, the original text with the suffix of the matched rule removed is
\* a prefix of the stem returned
NoRuleDiscardsMore ==
    FusedIdentified
    => IsPrefix(DropLast(result.originalText, Len(SuffixOfRule(result.pattern))),
                result.stem)

\* ---------------------------------------------------------------------
\* C29  The delimited occurrences of a term searched in precision mode.
\* ---------------------------------------------------------------------
\* the positions of the text where the term stands between two boundaries
DelimitedOccurrences(term, text) ==
    {p \in 0..(Len(text) - Len(term)) :
        OccursAt(text, term, p) /\ Delimited(text, p, Len(term))}

MatchPositions(found) == {found[i].position : i \in 1..Len(found)}

\* C29: for a term that ends in a phonological mark, every occurrence of
\* the term in the text that is delimited on both sides by the start or the
\* end of the text or a boundary character yields a match at its position,
\* also when the term stands twice in a row with one space between
PrecisionFindsEveryWord ==
    (/\ Searched("search")
     /\ ArgumentCheck(args[1], args[2]) = "ok"
     /\ hasEndingMarker(NFC(args[1].s)))
    => DelimitedOccurrences(NFC(args[1].s), NFC(args[2].s))
          \subseteq MatchPositions(result.matches)

\* ---------------------------------------------------------------------
\* C30  The third strategy of generateVariations.
\* ---------------------------------------------------------------------
\* the variations of a list that a rule of tryVowelCombinations has made
Expanded(variations) ==
    {k \in 1..Len(variations) : variations[k].rule[1] = "expand-"}

\* C30: for every term each text that tryVowelCombinations makes is made
\* earlier by trySplitSandhi, so that the list generateVariations returns
\* holds no variation whose rule starts with expand-
ThirdStrategyAddsNothing ==
    VariationsMade
    => /\ VariationTexts(tryVowelCombinations(args[1].s))
             \subseteq VariationTexts(trySplitSandhi(args[1].s))
       /\ Expanded(result.variations) = {}

\* tryVowelCombinations has expanded a vowel of the term
VowelExpanded ==
    /\ VariationsMade
    /\ Expanded(tryVowelCombinations(args[1].s)) # {}
    /\ Len(result.variations) >= 2

====
